---- MODULE Spec2Model ----
(***************************************************************************)
(* A model of the wxapkg unpacker (src/wxapkg.py): decrypt_file,           *)
(* parse_wxapkg and the concurrent unpack; of the unpack command of        *)
(* src/cli.py; and of the restorers of src/restorer.  Bytes are naturals   *)
(* in 0..255, byte strings and character strings are sequences of naturals *)
(* (a character is its code point).                                        *)
(***************************************************************************)
EXTENDS Integers, Sequences, FiniteSets, TLC

VARIABLES
    \* decrypt_file(wxid, wxapkg_path)
    wxid,       \* the identifier, a sequence of code points
    data,       \* the bytes read from wxapkg_path
    dpc,        \* "call" | "returned" | "raised"
    dres,       \* the value returned (a byte sequence), <<>> before/when raised
    derr,       \* the exception raised, "none" otherwise
    \* parse_wxapkg(data)
    pdata,      \* the plaintext handed to parse_wxapkg
    ppc,        \* "call" | "returned" | "raised"
    pres,       \* the file list returned
    perr,       \* the exception raised, "none" otherwise
    \* unpack(decrypted_data, output_dir, thread_count, beautify, beautify_funcs, cb)
    udata,      \* decrypted_data
    beautify,   \* the beautify flag
    threads,    \* thread_count, the width of the worker pool
    upc,        \* "call" | "collect" | "returned" | "raised"
    uerr,       \* the exception unpack raised, "none" otherwise
    flist,      \* file_list
    wpc,        \* per submitted save_file: "queued" | "store" | "write" | "done" | "failed"
    wcnt,       \* per save_file: the count read by ext_stats.get(ext, 0)
    tr,         \* per save_file: the outcome of the transform, "none" when not called
    wout,       \* per save_file: the bytes handed to write_bytes
    ext_stats,  \* the per-extension counts
    files,      \* the files on disk under output_dir: path -> content
    dirs,       \* the directories created
    completed,  \* the progress counter
    calls,      \* the invocations of progress_callback, in order
    log,        \* the entries whose failure was printed, in order
    collected,  \* the futures as_completed has yielded
    ret,        \* the value unpack returned
    \* cli.unpack(root, output, thread, disable_beautify) and _do_unpack
    root,       \* the --root argument, a sequence of code points
    rootKind,   \* what is at root: "missing" | "file" | "dir"
    tree,       \* the archives below root: per child directory, its .wxapkg files
    cpc,        \* "start" | "run" | "done" | "exit" | "crashed"
    cwxid,      \* the wxid handed to _do_unpack, <<>> before
    csub,       \* the position of the loop over sub_dirs
    cfile,      \* the position of the loop over files
    attempted,  \* the archives decrypt_and_unpack was called on, in order
    total_files,\* total_files
    cexit,      \* the exit code of the process, -1 while it runs
    \* WxssRestorer._add_style
    styles,     \* self.styles: path -> WxssStyle
    added,      \* the calls of _add_style so far, in order
    \* ConfigRestorer.restore
    ksrc,       \* the three sources found under base_dir
    kpc,        \* "start" | "service" | "scan" | "build" | "done"
    app_config, \* self.app_config: <<>> for None, else <<the AppConfig>>
    page_configs, \* self.page_configs: page path -> PageConfig
    korigin,    \* per page path, the source whose step created its record
    kresult,    \* the dictionary restore returns, <<>> before it returns
    \* one call of a function of the restorers
    fn,         \* the function called
    arg,        \* its argument
    res,        \* its result
    fpc         \* "idle" | "call" | "done"

dvars == <<wxid, data, dpc, dres, derr>>

pvars == <<pdata, ppc, pres, perr>>

uvars == <<udata, beautify, threads, upc, uerr, flist, wpc, wcnt, tr, wout,
           ext_stats, files, dirs, completed, calls, log, collected, ret>>

cvars == <<root, rootKind, tree, cpc, cwxid, csub, cfile, attempted, total_files, cexit>>

svars == <<styles, added>>

kvars == <<ksrc, kpc, app_config, page_configs, korigin, kresult>>

fvars == <<fn, arg, res, fpc>>

\* the variables of the command line and of the restorers
xvars == <<cvars, svars, kvars, fvars>>

vars == <<dvars, pvars, uvars, xvars>>

----------------------------------------------------------------------------
(* Generic helpers *)

Min(a, b) == IF a < b THEN a ELSE b

Max(a, b) == IF a > b THEN a ELSE b

RECURSIVE Xor(_, _)
\* Python's integer ^ on naturals
Xor(a, b) ==
    IF a = 0 THEN b
    ELSE IF b = 0 THEN a
    ELSE ((a + b) % 2) + 2 * Xor(a \div 2, b \div 2)

\* Python's s[lo:hi] for 0 <= lo: the slice is clamped to the sequence, never an error
PySlice(s, lo, hi) == SubSeq(s, lo + 1, Min(hi, Len(s)))

RECURSIVE SumSeq(_)
SumSeq(s) == IF s = <<>> THEN 0 ELSE Head(s) + SumSeq(Tail(s))

RECURSIVE Utf8Encode(_)
\* str.encode('utf-8') for code points below 65536
Utf8Encode(s) ==
    IF s = <<>> THEN <<>>
    ELSE LET c == Head(s)
             enc == IF c < 128 THEN <<c>>
                    ELSE IF c < 2048 THEN <<192 + (c \div 64), 128 + (c % 64)>>
                    ELSE <<224 + (c \div 4096), 128 + ((c \div 64) % 64), 128 + (c % 64)>>
         IN enc \o Utf8Encode(Tail(s))

----------------------------------------------------------------------------
(* Constants of src/wxapkg.py *)

\* SALT = b"saltiest"
SALT == <<115, 97, 108, 116, 105, 101, 115, 116>>

\* IV = b"the iv: 16 bytes"
IV == <<116, 104, 101, 32, 105, 118, 58, 32, 49, 54, 32, 98, 121, 116, 101, 115>>

PBKDF2_KEY_LENGTH == 32

\* the AES block size
BLOCK == 16

\* the bytes skipped at the start of the archive: data[6:1024 + 6]
SKIP == 6

\* the length of the AES-CBC encrypted header: data[6:1024 + 6]
HEADER == 1024

\* decrypted_header[:1023]
KEPT == 1023

\* the mask used when the identifier has no penultimate character
DEFAULT_XOR == 102

FIRST_MARK == 190

LAST_MARK == 237

----------------------------------------------------------------------------
(* decrypt_file *)

\* PBKDF2(password, SALT, 32, 1000, SHA1): an abstract deterministic key
\* derivation, a function of the password bytes and the salt alone.
Pbkdf2(password) ==
    [i \in 1..PBKDF2_KEY_LENGTH |->
        (SumSeq(password) + SumSeq(SALT) + 31 * i + 7 * Len(password)) % 256]

\* AES block decryption under key k: an abstract keyed permutation of the
\* 16-byte blocks (the block is reversed and the key added byte-wise).
BlockDec(k, blk) ==
    [i \in 1..BLOCK |-> (blk[BLOCK + 1 - i] + k[i] + k[i + BLOCK]) % 256]

\* The plaintext byte j (1-based) of CBC decryption: the decrypted cipher
\* block XOR the previous cipher block (the IV for the first block).
CbcByte(k, iv, ct, j) ==
    LET b == (j - 1) \div BLOCK
        i == ((j - 1) % BLOCK) + 1
        prev == IF b = 0 THEN iv[i] ELSE ct[(b - 1) * BLOCK + i]
    IN Xor(BlockDec(k, SubSeq(ct, b * BLOCK + 1, b * BLOCK + BLOCK))[i], prev)

\* cipher.decrypt(ct) of AES.MODE_CBC: a ciphertext that is not a whole number
\* of blocks raises ValueError; the empty ciphertext decrypts to the empty
\* plaintext.
CbcOk(ct) == Len(ct) % BLOCK = 0

CbcDecrypt(k, iv, ct) == [j \in 1..Len(ct) |-> CbcByte(k, iv, ct, j)]

\* XorKey with another default mask
XorKey_ZeroDefault(id) == IF Len(id) >= 2 THEN id[Len(id) - 1] ELSE 0

\* xor_key = ord(wxid[-2]) if len(wxid) >= 2 else 0x66
XorKey(id) == IF Len(id) >= 2 THEN id[Len(id) - 1] ELSE DEFAULT_XOR

\* bytes(b ^ xor_key for b in tail): bytes() raises ValueError on a value
\* outside range(256)
XorOk(key, tail) == \A i \in 1..Len(tail) : Xor(tail[i], key) < 256

XorData(key, tail) == [i \in 1..Len(tail) |-> Xor(tail[i], key)]

\* DecryptFile keeping all 1024 decrypted bytes
DecryptFile_KeepAll(id, d) ==
    LET dk  == Pbkdf2(Utf8Encode(id))
        ct  == PySlice(d, SKIP, HEADER + SKIP)
        key == XorKey(id)
        tl  == PySlice(d, HEADER + SKIP, Len(d))
    IN IF ~CbcOk(ct) THEN [err |-> "ValueError", value |-> <<>>]
       ELSE IF ~XorOk(key, tl) THEN [err |-> "ValueError", value |-> <<>>]
       ELSE [err |-> "none", value |-> CbcDecrypt(dk, IV, ct) \o XorData(key, tl)]

\* decrypt_file(wxid, path) on the file content d: the outcome
DecryptFile(id, d) ==
    LET dk  == Pbkdf2(Utf8Encode(id))
        ct  == PySlice(d, SKIP, HEADER + SKIP)
        key == XorKey(id)
        tl  == PySlice(d, HEADER + SKIP, Len(d))
    IN IF ~CbcOk(ct) THEN [err |-> "ValueError", value |-> <<>>]
       ELSE IF ~XorOk(key, tl) THEN [err |-> "ValueError", value |-> <<>>]
       ELSE [err |-> "none",
             value |-> PySlice(CbcDecrypt(dk, IV, ct), 0, KEPT) \o XorData(key, tl)]

----------------------------------------------------------------------------
(* parse_wxapkg *)

\* if name_len > 10 * 1024 * 1024
MAX_NAME_LEN == 10485760

\* the big-endian value of a byte sequence
RECURSIVE BigEndian(_)
BigEndian(s) ==
    IF s = <<>> THEN 0 ELSE 256 * BigEndian(SubSeq(s, 1, Len(s) - 1)) + s[Len(s)]

\* U32Ok accepting a short slice
U32Ok_Lenient(d, o) == TRUE

\* struct.unpack('>I', data[o:o + 4]) raises struct.error unless the slice
\* holds exactly 4 bytes
U32Ok(d, o) == Len(PySlice(d, o, o + 4)) = 4

U32(d, o) == BigEndian(PySlice(d, o, o + 4))

\* the number of continuation bytes a UTF-8 lead byte announces (-1: not a lead)
Utf8Follow(b) ==
    IF b < 128 THEN 0
    ELSE IF b >= 194 /\ b <= 223 THEN 1
    ELSE IF b >= 224 /\ b <= 239 THEN 2
    ELSE IF b >= 240 /\ b <= 244 THEN 3
    ELSE -1

\* the range allowed to the first continuation byte after lead b
Utf8SecondOk(b, c) ==
    IF b = 224 THEN c >= 160 /\ c <= 191
    ELSE IF b = 237 THEN c >= 128 /\ c <= 159
    ELSE IF b = 240 THEN c >= 144 /\ c <= 191
    ELSE IF b = 244 THEN c >= 128 /\ c <= 143
    ELSE c >= 128 /\ c <= 191

RECURSIVE Utf8Decode(_)
\* bytes.decode('utf-8'): [ok, value], ok = FALSE for UnicodeDecodeError
Utf8Decode(s) ==
    IF s = <<>> THEN [ok |-> TRUE, value |-> <<>>]
    ELSE LET b == Head(s)
             n == Utf8Follow(b)
         IN IF n = -1 \/ Len(s) < n + 1 THEN [ok |-> FALSE, value |-> <<>>]
            ELSE IF n >= 1 /\ ~Utf8SecondOk(b, s[2]) THEN [ok |-> FALSE, value |-> <<>>]
            ELSE IF \E k \in 3..(n + 1) : s[k] < 128 \/ s[k] > 191
                 THEN [ok |-> FALSE, value |-> <<>>]
            ELSE LET lead == IF n = 0 THEN b
                             ELSE IF n = 1 THEN b - 192
                             ELSE IF n = 2 THEN b - 224
                             ELSE b - 240
                     cp == IF n = 0 THEN lead
                           ELSE IF n = 1 THEN 64 * lead + (s[2] - 128)
                           ELSE IF n = 2 THEN 4096 * lead + 64 * (s[2] - 128) + (s[3] - 128)
                           ELSE 262144 * lead + 4096 * (s[2] - 128)
                                + 64 * (s[3] - 128) + (s[4] - 128)
                     rest == Utf8Decode(SubSeq(s, n + 2, Len(s)))
                 IN IF rest.ok THEN [ok |-> TRUE, value |-> <<cp>> \o rest.value]
                    ELSE rest

RECURSIVE ParseEntries(_, _, _, _)
\* the loop "for _ in range(file_count)" from byte offset o, left entries to go
ParseEntries(d, o, left, acc) ==
    IF left = 0 THEN [err |-> "none", value |-> acc]
    ELSE IF ~U32Ok(d, o) THEN [err |-> "struct.error", value |-> <<>>]
    ELSE LET name_len == U32(d, o)
             o1 == o + 4
         IN IF name_len > MAX_NAME_LEN THEN [err |-> "ValueError", value |-> <<>>]
            ELSE LET name == Utf8Decode(PySlice(d, o1, o1 + name_len))
                     o2 == o1 + name_len
                     o3 == o2 + 4
                 IN IF ~name.ok THEN [err |-> "UnicodeDecodeError", value |-> <<>>]
                    ELSE IF ~U32Ok(d, o2) THEN [err |-> "struct.error", value |-> <<>>]
                    ELSE IF ~U32Ok(d, o3) THEN [err |-> "struct.error", value |-> <<>>]
                    ELSE ParseEntries(d, o3 + 4, left - 1,
                            Append(acc, [name |-> name.value,
                                         offset |-> U32(d, o2),
                                         size |-> U32(d, o3)]))

\* ParseWxapkg without the validation of the marks
ParseWxapkg_NoMarks(d) ==
    IF Len(d) < 1 THEN [err |-> "IndexError", value |-> <<>>]
    ELSE IF ~U32Ok(d, 1) \/ ~U32Ok(d, 5) \/ ~U32Ok(d, 9)
         THEN [err |-> "struct.error", value |-> <<>>]
    ELSE IF Len(d) < 14 THEN [err |-> "IndexError", value |-> <<>>]
    ELSE IF ~U32Ok(d, 14) THEN [err |-> "struct.error", value |-> <<>>]
    ELSE ParseEntries(d, 18, U32(d, 14), <<>>)

\* parse_wxapkg(data): the outcome
ParseWxapkg(d) ==
    IF Len(d) < 1 THEN [err |-> "IndexError", value |-> <<>>]
    ELSE IF ~U32Ok(d, 1) \/ ~U32Ok(d, 5) \/ ~U32Ok(d, 9)
         THEN [err |-> "struct.error", value |-> <<>>]
    ELSE IF Len(d) < 14 THEN [err |-> "IndexError", value |-> <<>>]
    ELSE IF d[1] # FIRST_MARK \/ d[14] # LAST_MARK
         THEN [err |-> "ValueError", value |-> <<>>]
    ELSE IF ~U32Ok(d, 14) THEN [err |-> "struct.error", value |-> <<>>]
    ELSE ParseEntries(d, 18, U32(d, 14), <<>>)

----------------------------------------------------------------------------
(* Inputs of decrypt_file *)

\* the largest number of bytes after the encrypted header
MaxTail == 2

\* the number of header fill patterns
MaxSeed == 2

\* "wx0123456789abcdef"
IdA == <<119, 120, 48, 49, 50, 51, 52, 53, 54, 55, 56, 57, 97, 98, 99, 100, 101, 102>>

\* "wx0123456789abcde0": IdA with another last character
IdB == <<119, 120, 48, 49, 50, 51, 52, 53, 54, 55, 56, 57, 97, 98, 99, 100, 101, 48>>

\* "wx1123456789abcdef": IdA with another third character
IdC == <<119, 120, 49, 49, 50, 51, 52, 53, 54, 55, 56, 57, 97, 98, 99, 100, 101, 102>>

\* "wx": the shortest identifier with a penultimate character
IdShort == <<119, 120>>

\* "w": an identifier of length 1
IdOne == <<119>>

\* an identifier whose penultimate character is not an 8-bit value
IdWide == <<119, 20013, 120>>

Identifiers == {IdA, IdB, IdC, IdShort, IdOne, IdWide}

TailBytes == {0, 102, 255}

RECURSIVE SeqsUpTo(_, _)
\* the sequences over S of length at most n
SeqsUpTo(S, n) ==
    IF n = 0 THEN {<<>>}
    ELSE LET r == SeqsUpTo(S, n - 1)
         IN r \cup {Append(s, x) : s \in {t \in r : Len(t) = n - 1}, x \in S}

Fill(seed, n) == [i \in 1..n |-> (seed * i + 11 * seed) % 256]

\* archive lengths below 6 + 1024, among them 0..6 and lengths whose bytes
\* after offset 6 are a whole number of blocks (22, 38, 1014) or are not
ShortLens == {0, 1, 5, 6, 7, 21, 22, 38, 1014, 1029}

ShortBuffers == {Fill(seed, n) : seed \in 1..MaxSeed, n \in ShortLens}

LongBuffers ==
    {Fill(seed, SKIP + HEADER) \o t : seed \in 1..MaxSeed, t \in SeqsUpTo(TailBytes, MaxTail)}

\* the unpack command is not running
CIdle ==
    /\ root = <<>> /\ rootKind = "missing" /\ tree = <<>> /\ cpc = "idle" /\ cwxid = <<>>
    /\ csub = 0 /\ cfile = 0 /\ attempted = <<>> /\ total_files = 0 /\ cexit = -1

\* no WxssRestorer is in use
SIdle == styles = <<>> /\ added = <<>>

\* no ConfigRestorer is in use
KIdle ==
    /\ ksrc = <<>> /\ kpc = "idle" /\ app_config = <<>> /\ page_configs = <<>>
    /\ korigin = <<>> /\ kresult = <<>>

\* no function of the restorers is being called
FIdle == fn = "none" /\ arg = <<>> /\ res = <<>> /\ fpc = "idle"

XIdle == CIdle /\ SIdle /\ KIdle /\ FIdle

\* no call of decrypt_file is in progress
DIdle == wxid = <<>> /\ data = <<>> /\ dpc = "idle" /\ dres = <<>> /\ derr = "none"

\* no call of unpack is in progress
UIdle ==
    /\ udata = <<>> /\ beautify = FALSE /\ threads = 0 /\ upc = "idle" /\ uerr = "none"
    /\ flist = <<>> /\ wpc = <<>> /\ wcnt = <<>> /\ tr = <<>> /\ wout = <<>>
    /\ ext_stats = <<>> /\ files = <<>> /\ dirs = {} /\ completed = 0
    /\ calls = <<>> /\ log = <<>> /\ collected = {} /\ ret = -1

\* no call of parse_wxapkg is in progress
PIdle == pdata = <<>> /\ ppc = "idle" /\ pres = <<>> /\ perr = "none"

DInit ==
    /\ wxid \in Identifiers
    /\ data \in ShortBuffers \cup LongBuffers
    /\ dpc = "call"
    /\ dres = <<>>
    /\ derr = "none"
    /\ PIdle
    /\ UIdle
    /\ XIdle

\* the call of decrypt_file returns or raises
Decrypt ==
    /\ dpc = "call"
    /\ LET r == DecryptFile(wxid, data)
       IN /\ dpc' = IF r.err = "none" THEN "returned" ELSE "raised"
          /\ dres' = r.value
          /\ derr' = r.err
    /\ UNCHANGED <<wxid, data, pvars, uvars, xvars>>

SpecDecrypt == DInit /\ [][Decrypt]_vars

----------------------------------------------------------------------------
(* Claims about decrypt_file, checked under SpecDecrypt *)

\* the identifier has a penultimate character and it is an 8-bit value
HasMask == Len(wxid) >= 2 /\ wxid[Len(wxid) - 1] < 256

\* C1: for every archive buffer B of at least 1030 bytes (and an identifier
\* with an 8-bit penultimate character x) decrypt_file returns P with
\* len(P) = len(B) - 7, whose first 1023 bytes are the first 1023 bytes of the
\* CBC decryption of B[6..1030) and P[1023 + i] = B[1030 + i] XOR x for every
\* i in 0 .. len(B) - 1031.
C1_DecryptLayout ==
    (dpc # "call" /\ Len(data) >= 1030 /\ HasMask) =>
        /\ dpc = "returned"
        /\ Len(dres) = Len(data) - 7
        /\ \A j \in 1..1023 :
              dres[j] = CbcByte(Pbkdf2(Utf8Encode(wxid)), IV, SubSeq(data, 7, 1030), j)
        /\ \A i \in 0..(Len(data) - 1031) :
              dres[1023 + i + 1] = Xor(data[1030 + i + 1], wxid[Len(wxid) - 1])

\* C1 witness: a buffer with a tail has been decrypted and the mask changed a byte
C1_Witness ==
    /\ dpc = "returned" /\ Len(data) > 1031 /\ HasMask
    /\ dres[Len(dres)] # data[Len(data)]

\* C2 (as claimed): decrypt_file fails and yields no plaintext for every
\* archive buffer shorter than 1030 bytes (here with an identifier that has
\* an 8-bit penultimate character).
C2_ShortBufferFails ==
    (dpc # "call" /\ Len(data) < 1030 /\ HasMask) => (dpc = "raised" /\ dres = <<>>)

----------------------------------------------------------------------------
(* Inputs of parse_wxapkg: archives encoded in the container format *)

\* the largest number of index entries of an archive given to parse_wxapkg
MaxParseEntries == 2

EncU32(n) == <<n \div 16777216, (n \div 65536) % 256, (n \div 256) % 256, n % 256>>

\* "/a.js"
NameA == <<47, 97, 46, 106, 115>>

\* "a.js": NameA without the leading '/'
NameA2 == <<97, 46, 106, 115>>

\* "/b/A.JS"
NameB == <<47, 98, 47, 65, 46, 74, 83>>

\* "/c"
NameC == <<47, 99>>

\* "//c": NameC with a second leading '/'
NameC2 == <<47, 47, 99>>

\* "/../x/u": a name that climbs out of the directory it is joined to
NameUp == <<47, 46, 46, 47, 120, 47, 117>>

\* "/" followed by a byte that is not UTF-8
NameBad == <<47, 255>>

\* "x=1"
Payload == <<120, 61, 49>>

\* one index entry: u32 name_len | name | u32 offset | u32 size
EncEntry(nl, name, off, size) == EncU32(nl) \o name \o EncU32(off) \o EncU32(size)

RECURSIVE Concat(_)
Concat(ss) == IF ss = <<>> THEN <<>> ELSE Head(ss) \o Concat(Tail(ss))

\* u8 first_mark | u32 info1 | u32 index_len | u32 body_len | u8 last_mark |
\* u32 entry_count | entries | payload
EncArchive(fm, lm, count, encs, payload) ==
    LET idx == EncU32(count) \o Concat(encs)
    IN <<fm>> \o EncU32(1) \o EncU32(Len(idx)) \o EncU32(Len(payload)) \o <<lm>>
         \o idx \o payload

\* the index entries of the parse inputs: (name, offset, size)
PEntrySet ==
    {<<NameA, 60, 3>>, <<NameA2, 61, 2>>, <<NameB, 300, 70000>>, <<NameC, 0, 0>>}

WellFormedArchives ==
    {EncArchive(FIRST_MARK, LAST_MARK, Len(es),
                [k \in 1..Len(es) |-> EncEntry(Len(es[k][1]), es[k][1], es[k][2], es[k][3])],
                Payload) : es \in SeqsUpTo(PEntrySet, MaxParseEntries)}

Prefixes(d) == {SubSeq(d, 1, n) : n \in 0..Len(d)}

\* archives whose index is damaged other than by truncation
DamagedArchives ==
    {EncArchive(189, LAST_MARK, 1, <<EncEntry(5, NameA, 60, 3)>>, Payload),
     EncArchive(FIRST_MARK, 236, 1, <<EncEntry(5, NameA, 60, 3)>>, Payload),
     EncArchive(FIRST_MARK, LAST_MARK, 1, <<EncEntry(MAX_NAME_LEN + 1, NameA, 60, 3)>>, Payload),
     EncArchive(FIRST_MARK, LAST_MARK, 1, <<EncEntry(MAX_NAME_LEN, NameA, 60, 3)>>, Payload),
     EncArchive(FIRST_MARK, LAST_MARK, 1, <<EncEntry(2147483647, NameA, 60, 3)>>, Payload),
     EncArchive(FIRST_MARK, LAST_MARK, 2,
                <<EncEntry(5, NameA, 60, 3), EncEntry(MAX_NAME_LEN + 1, NameC, 0, 0)>>, Payload),
     EncArchive(FIRST_MARK, LAST_MARK, 1, <<EncEntry(2, NameBad, 60, 3)>>, Payload),
     EncArchive(FIRST_MARK, LAST_MARK, 3, <<EncEntry(5, NameA, 60, 3)>>, <<>>),
     EncArchive(FIRST_MARK, LAST_MARK, 2147483647, <<EncEntry(2, NameC, 0, 0)>>, <<>>)}

ParseInputs ==
    UNION {Prefixes(d) : d \in WellFormedArchives} \cup DamagedArchives

PInit ==
    /\ DIdle
    /\ UIdle
    /\ XIdle
    /\ pdata \in ParseInputs
    /\ ppc = "call"
    /\ pres = <<>>
    /\ perr = "none"

\* the call of parse_wxapkg returns or raises
Parse ==
    /\ ppc = "call"
    /\ LET r == ParseWxapkg(pdata)
       IN /\ ppc' = IF r.err = "none" THEN "returned" ELSE "raised"
          /\ pres' = r.value
          /\ perr' = r.err
    /\ UNCHANGED <<pdata, dvars, uvars, xvars>>

SpecParse == PInit /\ [][Parse]_vars

----------------------------------------------------------------------------
(* Claims about parse_wxapkg, checked under SpecParse *)

\* the byte length of the index up to and including the first k entries of es
RECURSIVE IndexEnd(_, _)
IndexEnd(es, k) ==
    IF k = 0 THEN 18 ELSE IndexEnd(es, k - 1) + 12 + Len(Utf8Encode(es[k].name))

\* the u32 stored at byte offset o of the plaintext (o + 4 <= Len(pdata))
FieldAt(o) == BigEndian(SubSeq(pdata, o + 1, o + 4))

----------------------------------------------------------------------------
(* unpack: paths *)

\* name.lstrip('/')
RECURSIVE LStrip(_)
LStrip(s) == IF s # <<>> /\ Head(s) = 47 THEN LStrip(Tail(s)) ELSE s

\* the '/'-separated pieces of s, the empty ones included
RECURSIVE SplitSlash(_, _)
SplitSlash(s, cur) ==
    IF s = <<>> THEN <<cur>>
    ELSE IF Head(s) = 47 THEN <<cur>> \o SplitSlash(Tail(s), <<>>)
    ELSE SplitSlash(Tail(s), Append(cur, Head(s)))

RECURSIVE DropEmptyAndDot(_)
DropEmptyAndDot(ps) ==
    IF ps = <<>> THEN <<>>
    ELSE IF Head(ps) = <<>> \/ Head(ps) = <<46>> THEN DropEmptyAndDot(Tail(ps))
    ELSE <<Head(ps)>> \o DropEmptyAndDot(Tail(ps))

\* Path(output_dir) / name.lstrip('/'), as the components below output_dir:
\* pathlib drops empty and '.' components and keeps '..'
Dest(name) == DropEmptyAndDot(SplitSlash(LStrip(name), <<>>))

\* output_path.parent; the parent of output_dir itself is written <<"..">>
Parent(path) ==
    IF path = <<>> THEN << <<46, 46>> >> ELSE SubSeq(path, 1, Len(path) - 1)

\* the directories parent.mkdir(parents=True, exist_ok=True) leaves in place
MkdirParents(path) == {SubSeq(path, 1, k) : k \in 0..Len(path)}

\* str.rfind('.') on a component, 0-based, -1 when absent
RECURSIVE RFindDot(_)
RFindDot(nm) ==
    IF nm = <<>> THEN -1
    ELSE IF nm[Len(nm)] = 46 THEN Len(nm) - 1
    ELSE RFindDot(SubSeq(nm, 1, Len(nm) - 1))

\* PurePath.suffix: the last component from its last '.', unless that dot is
\* its first or its last character
Suffix(path) ==
    IF path = <<>> THEN <<>>
    ELSE LET nm == path[Len(path)]
             i == RFindDot(nm)
         IN IF 0 < i /\ i < Len(nm) - 1 THEN SubSeq(nm, i + 1, Len(nm)) ELSE <<>>

\* str.lower() on ASCII
Lower(s) == [k \in 1..Len(s) |-> IF s[k] >= 65 /\ s[k] <= 90 THEN s[k] + 32 ELSE s[k]]

\* ext = output_path.suffix.lower()
Ext(name) == Lower(Suffix(Dest(name)))

\* the keys of BEAUTIFY_MAP: '.json', '.js', '.html'
BeautifyKeys ==
    {<<46, 106, 115, 111, 110>>, <<46, 106, 115>>, <<46, 104, 116, 109, 108>>}

\* the bytes a registered transform returns when it succeeds: an abstract
\* formatter whose output differs from its input
Pretty(d) == d \o <<10>>

\* d with key k bound to v
Bind(d, k, v) == [x \in (DOMAIN d) \cup {k} |-> IF x = k THEN v ELSE d[x]]

\* ext_stats.get(ext, 0)
GetCount(st, e) == IF e \in DOMAIN st THEN st[e] ELSE 0

\* FileData ignoring the entry's offset
FileData_FromStart(d, f) == PySlice(d, 0, f.size)

\* file_data = decrypted_data[file_info.offset:file_info.offset + file_info.size]
FileData(d, f) == PySlice(d, f.offset, f.offset + f.size)

----------------------------------------------------------------------------
(* unpack: inputs *)

\* the largest number of index entries of an archive given to unpack
MaxEntries == 2

\* the largest thread_count
MaxThreads == 2

\* the index entries of the unpack inputs: (name, offset into the payload, size);
\* the payload has 3 bytes, so the last entry runs past the end of the plaintext
UEntrySet ==
    {<<NameA, 0, 3>>, <<NameA2, 1, 2>>, <<NameB, 0, 3>>, <<NameC, 2, 5>>,
     <<NameC2, 0, 3>>, <<NameUp, 0, 3>>}

\* the byte length of header and index for the entries es
IndexLen(es) == 18 + SumSeq([k \in 1..Len(es) |-> 12 + Len(es[k][1])])

\* the plaintext of an archive with marks fm, lm and the entries es
Plaintext(fm, lm, es) ==
    EncArchive(fm, lm, Len(es),
               [k \in 1..Len(es) |->
                   EncEntry(Len(es[k][1]), es[k][1], IndexLen(es) + es[k][2], es[k][3])],
               Payload)

Marks == {<<FIRST_MARK, LAST_MARK>>, <<189, LAST_MARK>>, <<FIRST_MARK, 236>>}

UnpackInputs ==
    {Plaintext(m[1], m[2], es) : m \in Marks, es \in SeqsUpTo(UEntrySet, MaxEntries)}

UInit ==
    /\ DIdle
    /\ PIdle
    /\ XIdle
    /\ udata \in UnpackInputs
    /\ beautify \in BOOLEAN
    /\ threads \in 1..MaxThreads
    /\ upc = "call"
    /\ uerr = "none"
    /\ flist = <<>> /\ wpc = <<>> /\ wcnt = <<>> /\ tr = <<>> /\ wout = <<>>
    /\ ext_stats = <<>> /\ files = <<>> /\ dirs = {} /\ completed = 0
    /\ calls = <<>> /\ log = <<>> /\ collected = {} /\ ret = -1

----------------------------------------------------------------------------
(* unpack: the main thread and the pool's workers *)

Entries == 1..Len(flist)

\* the save_file calls a worker thread is running
Running == {j \in Entries : wpc[j] \in {"store", "write"}}

\* file_list = parse_wxapkg(decrypted_data); every entry is submitted to the pool
UnpackStart ==
    /\ upc = "call"
    /\ LET r == ParseWxapkg(udata)
           n == Len(r.value)
       IN /\ upc' = IF r.err # "none" THEN "raised" ELSE IF n = 0 THEN "returned" ELSE "collect"
          /\ uerr' = r.err
          /\ flist' = r.value
          /\ wpc' = [i \in 1..n |-> "queued"]
          /\ wcnt' = [i \in 1..n |-> 0]
          /\ tr' = [i \in 1..n |-> "none"]
          /\ wout' = [i \in 1..n |-> <<>>]
          /\ ret' = IF r.err = "none" /\ n = 0 THEN 0 ELSE ret
    /\ UNCHANGED <<udata, beautify, threads, ext_stats, files, dirs, completed, calls,
                   log, collected, dvars, pvars, xvars>>

\* the pool runs the oldest queued save_file when one of its thread_count
\* workers is free
CanBegin(i) ==
    /\ upc = "collect"
    /\ wpc[i] = "queued"
    /\ \A j \in 1..(i - 1) : wpc[j] # "queued"
    /\ Cardinality(Running) < threads

\* a worker is inside save_file for entry i
CanStep(i) == wpc[i] \in {"store", "write"}

\* as_completed can yield the future of entry i: it is finished and was not
\* yielded before
CanCollect(i) ==
    /\ upc = "collect"
    /\ wpc[i] \in {"done", "failed"}
    /\ i \notin collected

\* a free worker takes the oldest queued save_file: it creates the parent
\* directories, slices the data and reads the extension's count; mkdir may raise
Begin(i) ==
    /\ CanBegin(i)
    /\ \/ /\ dirs' = dirs \cup MkdirParents(Parent(Dest(flist[i].name)))
          /\ wcnt' = [wcnt EXCEPT ![i] = GetCount(ext_stats, Ext(flist[i].name))]
          /\ wpc' = [wpc EXCEPT ![i] = "store"]
       \/ /\ wpc' = [wpc EXCEPT ![i] = "failed"]
          /\ UNCHANGED <<dirs, wcnt>>
    /\ UNCHANGED <<udata, beautify, threads, upc, uerr, flist, tr, wout, ext_stats, files,
                   completed, calls, log, collected, ret, dvars, pvars, xvars>>

\* ext_stats[ext] = (the count read) + 1
Store(i) ==
    /\ wpc[i] = "store"
    /\ ext_stats' = Bind(ext_stats, Ext(flist[i].name), wcnt[i] + 1)
    /\ wpc' = [wpc EXCEPT ![i] = "write"]
    /\ UNCHANGED <<udata, beautify, threads, upc, uerr, flist, wcnt, tr, wout, files, dirs,
                   completed, calls, log, collected, ret, dvars, pvars, xvars>>

\* the bytes save_file hands to write_bytes when the transform ends as outcome
\* ("pretty": it returned, "raise": it raised, "none": it was not called)
Chosen(raw, outcome) == IF outcome = "pretty" THEN Pretty(raw) ELSE raw

\* TransformCalled ignoring the beautify flag
TransformCalled_IgnoreFlag(flag, name) == Ext(name) \in BeautifyKeys

\* the transform is called when beautify is set and the extension is registered
TransformCalled(flag, name) == flag /\ Ext(name) \in BeautifyKeys

\* the transform step and output_path.write_bytes(file_data); the transform
\* may raise (swallowed) and write_bytes may raise
Write(i) ==
    /\ wpc[i] = "write"
    /\ \E o \in IF TransformCalled(beautify, flist[i].name) THEN {"pretty", "raise"} ELSE {"none"} :
         LET bytes == Chosen(FileData(udata, flist[i]), o)
         IN /\ tr' = [tr EXCEPT ![i] = o]
            /\ \/ /\ files' = Bind(files, Dest(flist[i].name), bytes)
                  /\ wout' = [wout EXCEPT ![i] = bytes]
                  /\ wpc' = [wpc EXCEPT ![i] = "done"]
               \/ /\ wpc' = [wpc EXCEPT ![i] = "failed"]
                  /\ UNCHANGED <<files, wout>>
    /\ UNCHANGED <<udata, beautify, threads, upc, uerr, flist, wcnt, ext_stats, dirs,
                   completed, calls, log, collected, ret, dvars, pvars, xvars>>

\* Collect invoking the callback only for a future that succeeded
Collect_CallbackOnSuccess(i) ==
    /\ CanCollect(i)
    /\ completed' = completed + 1
    /\ calls' = IF wpc[i] = "done" THEN Append(calls, <<completed + 1, Len(flist)>>) ELSE calls
    /\ log' = IF wpc[i] = "failed" THEN Append(log, i) ELSE log
    /\ collected' = collected \cup {i}
    /\ upc' = IF collected' = Entries THEN "returned" ELSE "collect"
    /\ ret' = IF collected' = Entries THEN Len(flist) ELSE ret
    /\ UNCHANGED <<udata, beautify, threads, uerr, flist, wpc, wcnt, tr, wout, ext_stats,
                   files, dirs, dvars, pvars, xvars>>

\* Collect letting the exception of a failed future propagate out of unpack
Collect_Reraise(i) ==
    /\ CanCollect(i)
    /\ completed' = completed + 1
    /\ calls' = Append(calls, <<completed + 1, Len(flist)>>)
    /\ log' = log
    /\ collected' = collected \cup {i}
    /\ upc' = IF wpc[i] = "failed" THEN "raised"
              ELSE IF collected' = Entries THEN "returned" ELSE "collect"
    /\ uerr' = IF wpc[i] = "failed" THEN "OSError" ELSE uerr
    /\ ret' = IF wpc[i] = "done" /\ collected' = Entries THEN Len(flist) ELSE ret
    /\ UNCHANGED <<udata, beautify, threads, flist, wpc, wcnt, tr, wout, ext_stats,
                   files, dirs, dvars, pvars, xvars>>

\* as_completed yields a finished future: the counter is advanced, the callback
\* invoked, and a failure is printed; after the last future unpack returns
Collect(i) ==
    /\ CanCollect(i)
    /\ completed' = completed + 1
    /\ calls' = Append(calls, <<completed + 1, Len(flist)>>)
    /\ log' = IF wpc[i] = "failed" THEN Append(log, i) ELSE log
    /\ collected' = collected \cup {i}
    /\ upc' = IF collected' = Entries THEN "returned" ELSE "collect"
    /\ ret' = IF collected' = Entries THEN Len(flist) ELSE ret
    /\ UNCHANGED <<udata, beautify, threads, uerr, flist, wpc, wcnt, tr, wout, ext_stats,
                   files, dirs, dvars, pvars, xvars>>

Next ==
    \/ UnpackStart
    \/ \E i \in Entries : Begin(i)
    \/ \E i \in Entries : Store(i)
    \/ \E i \in Entries : Write(i)
    \/ \E i \in Entries : Collect(i)

Spec == UInit /\ [][Next]_vars

----------------------------------------------------------------------------
(* Claims about unpack, checked under Spec *)

\* a mark of the plaintext is wrong (the plaintext holds both marks)
MarksBad == Len(udata) >= 14 /\ (udata[1] # 190 \/ udata[14] # 237)

\* the entry_count field of the plaintext
EntryCount == BigEndian(SubSeq(udata, 15, 18))

\* save_file has started for entry i
Extracting(i) == wpc[i] \in {"store", "write", "done"}

Contained(f) == 0 <= f.offset /\ f.offset + f.size <= Len(udata)

\* the entries whose save_file returned
Saved == {i \in Entries : wpc[i] = "done"}

DistinctDests ==
    \A i, j \in Entries : i # j => Dest(flist[i].name) # Dest(flist[j].name)

RECURSIVE TotalSize(_, _)
\* the sum of the sizes of the files f at the paths D
TotalSize(f, D) ==
    IF D = {} THEN 0
    ELSE LET d == CHOOSE x \in D : TRUE IN Len(f[d]) + TotalSize(f, D \ {d})

\* the number of bytes of entry f that lie inside the plaintext
ClampedSize(f) == Min(f.size, Max(0, Len(udata) - f.offset))

LogSet == {log[k] : k \in 1..Len(log)}

\* C4: when first_mark # 0xBE or last_mark # 0xED, unpack never gets past
\* parse_wxapkg: it raises the ValueError of the mark check, no save_file is
\* dispatched, no file is written and no directory is created.
C4_MarksBeforeWrites ==
    MarksBad =>
        /\ upc \in {"call", "raised"}
        /\ upc = "raised" => uerr = "ValueError"
        /\ wpc = <<>> /\ flist = <<>>
        /\ DOMAIN files = {} /\ dirs = {}

\* C4 witness: unpack has raised on an archive with a wrong mark whose index
\* lists entries
C4_Witness == upc = "raised" /\ MarksBad /\ EntryCount >= 1

\* C6 (as claimed): every entry that reaches extraction satisfies
\* 0 <= offset and offset + size <= len(plaintext).
C6_OffsetContainment ==
    \A i \in Entries : Extracting(i) => Contained(flist[i])

C8_ProgressSequence ==
    /\ \A k \in 1..Len(calls) : calls[k] = <<k, Len(flist)>>
    /\ Len(calls) = Cardinality(collected)
    /\ upc = "collect" => Len(calls) < Len(flist)
    /\ (upc = "returned" /\ Len(flist) >= 1) => Len(calls) = Len(flist)

\* C8 witness: both saves failed, the second entry completed before the first,
\* and the callback saw (1, 2) then (2, 2)
C8_Witness ==
    upc = "returned" /\ log = <<2, 1>> /\ calls = << <<1, 2>>, <<2, 2>> >>

\* C9: a save that raises never makes unpack raise (unpack raises only from
\* parse_wxapkg, before any entry is submitted); until it returns some step of
\* a worker or of the collecting loop is possible (and every step advances an
\* entry, so unpack terminates); and when it returns, every entry was attempted, every entry
\* whose save did not raise has its file on disk, exactly the failed entries
\* were reported, and the value returned is the number of entries.
C9_FailureIsolation ==
    /\ upc = "raised" => (flist = <<>> /\ wpc = <<>>)
    /\ upc = "collect" => \E i \in Entries : CanBegin(i) \/ CanStep(i) \/ CanCollect(i)
    /\ upc = "returned" =>
        /\ ret = Len(flist)
        /\ LogSet = {i \in Entries : wpc[i] = "failed"}
        /\ Len(log) = Cardinality(LogSet)
        /\ \A i \in Entries :
             /\ wpc[i] \in {"done", "failed"}
             /\ wpc[i] = "done" => Dest(flist[i].name) \in DOMAIN files

\* C9 witness: unpack returned after one save failed and another was written
C9_Witness ==
    /\ upc = "returned" /\ ret = 2
    /\ \E i, j \in Entries :
         /\ wpc[i] = "failed" /\ wpc[j] = "done"
         /\ Dest(flist[j].name) \in DOMAIN files
         /\ Dest(flist[i].name) \notin DOMAIN files

\* the extension of entry i is one of '.json', '.js', '.html'
Registered(i) ==
    Ext(flist[i].name) \in {<<46, 106, 115, 111, 110>>, <<46, 106, 115>>, <<46, 104, 116, 109, 108>>}

\* the untransformed slice P[off .. off + size] of entry i
RawSlice(i) ==
    SubSeq(udata, flist[i].offset + 1, Min(flist[i].offset + flist[i].size, Len(udata)))

\* C10: the transform is called exactly when transforms are enabled and one
\* is registered for the entry's lower-cased extension; the bytes written are
\* transform(slice) only when it was called and succeeded, and in every other
\* case (disabled, none registered, transform raised) exactly the
\* untransformed slice; the file holds these bytes unless another entry has
\* the same destination.
C10_TransformSelection ==
    \A i \in Entries : wpc[i] = "done" =>
        /\ (tr[i] # "none") <=> (beautify /\ Registered(i))
        /\ wout[i] = IF beautify /\ Registered(i) /\ tr[i] = "pretty"
                     THEN Pretty(RawSlice(i)) ELSE RawSlice(i)
        /\ (\A j \in Entries : j # i => Dest(flist[j].name) # Dest(flist[i].name)) =>
             files[Dest(flist[i].name)] = wout[i]

\* C10 witness: with transforms enabled, one entry's transform raised and its
\* raw slice was written, another entry with an upper-case registered
\* extension was written transformed
C10_Witness ==
    /\ upc = "returned" /\ beautify
    /\ \E i, j \in Entries :
         /\ wpc[i] = "done" /\ tr[i] = "raise" /\ wout[i] = RawSlice(i) /\ wout[i] # <<>>
         /\ wpc[j] = "done" /\ tr[j] = "pretty" /\ flist[j].name = NameB
         /\ files[Dest(NameB)] = Pretty(RawSlice(j))

----------------------------------------------------------------------------
(* The unpack command: cli.unpack, _do_unpack, parse_wxid_from_path *)

\* the {16} of r'(wx[0-9a-f]{16})'
HEX_DIGITS == 16

\* [0-9a-f]
HexLower(c) == (c >= 48 /\ c <= 57) \/ (c >= 97 /\ c <= 102)

\* wx[0-9a-f]{16} matches path at position i (1-based)
MatchAt(path, i) ==
    /\ i + 1 + HEX_DIGITS <= Len(path)
    /\ path[i] = 119
    /\ path[i + 1] = 120
    /\ \A k \in 2..(1 + HEX_DIGITS) : HexLower(path[i + k])

RECURSIVE SearchLast(_, _)
\* the match of wx[0-9a-f]{16} that starts last, <<>> for None
SearchLast(path, i) ==
    IF i < 1 THEN <<>>
    ELSE IF MatchAt(path, i) THEN SubSeq(path, i, i + 1 + HEX_DIGITS)
    ELSE SearchLast(path, i - 1)

\* ParseWxidFromPath returning the last match
ParseWxidFromPath_Last(path) == SearchLast(path, Len(path))

RECURSIVE Search(_, _)
\* re.search: the match at the leftmost position from i on, <<>> for None
Search(path, i) ==
    IF i > Len(path) THEN <<>>
    ELSE IF MatchAt(path, i) THEN SubSeq(path, i, i + 1 + HEX_DIGITS)
    ELSE Search(path, i + 1)

\* parse_wxid_from_path(path): group(1) of the match, <<>> for None
ParseWxidFromPath(path) == Search(path, 1)

\* decrypt_and_unpack(wxid, wxapkg_path, ...) on an archive a, given by the
\* outcome of decrypt_file on it (a.dec) and by the plaintext decrypt_file
\* returns (a.plain): the exception of decrypt_file or of parse_wxapkg
\* propagates, otherwise the number of files unpack saved is returned (every
\* entry is taken to be saved).
DecryptAndUnpack(a) ==
    IF a.dec # "none" THEN [err |-> a.dec, value |-> 0]
    ELSE LET p == ParseWxapkg(a.plain)
         IN IF p.err # "none" THEN [err |-> p.err, value |-> 0]
            ELSE [err |-> "none", value |-> Len(p.value)]

----------------------------------------------------------------------------
(* Inputs of the unpack command *)

\* the largest number of child directories of root
MaxSubdirs == 2

\* the largest number of .wxapkg files below one child directory
MaxArchives == 2

\* "/m/wx0123456789abcdef/1"
PathOne ==
    <<47, 109, 47, 119, 120, 48, 49, 50, 51, 52, 53, 54, 55, 56, 57, 97, 98, 99, 100,
      101, 102, 47, 49>>

\* "/wx0123456789abcdef/wxfedcba9876543210": two identifiers
PathTwo ==
    <<47, 119, 120, 48, 49, 50, 51, 52, 53, 54, 55, 56, 57, 97, 98, 99, 100, 101, 102,
      47, 119, 120, 102, 101, 100, 99, 98, 97, 57, 56, 55, 54, 53, 52, 51, 50, 49, 48>>

\* "wxwx0123456789abcdef0": the match starts at the third character
PathLate ==
    <<119, 120, 119, 120, 48, 49, 50, 51, 52, 53, 54, 55, 56, 57, 97, 98, 99, 100, 101,
      102, 48>>

\* "/m/wx0123456789ABCDEF": upper-case digits
PathUpper ==
    <<47, 109, 47, 119, 120, 48, 49, 50, 51, 52, 53, 54, 55, 56, 57, 65, 66, 67, 68, 69,
      70>>

\* "/m/wx0123456789abcde/x": 15 digits
PathShort ==
    <<47, 109, 47, 119, 120, 48, 49, 50, 51, 52, 53, 54, 55, 56, 57, 97, 98, 99, 100,
      101, 47, 120>>

\* "/m/app"
PathNone == <<47, 109, 47, 97, 112, 112>>

RootPaths == {PathOne, PathTwo, PathLate, PathUpper, PathShort, PathNone}

\* an archive that decrypts and parses, with one entry
ArchGood ==
    [dec |-> "none",
     plain |-> EncArchive(FIRST_MARK, LAST_MARK, 1, <<EncEntry(5, NameA, 60, 3)>>, Payload)]

\* an archive that decrypts to a plaintext parse_wxapkg rejects
ArchBadParse ==
    [dec |-> "none",
     plain |-> EncArchive(189, LAST_MARK, 1, <<EncEntry(5, NameA, 60, 3)>>, Payload)]

\* an archive decrypt_file raises on
ArchBadDecrypt == [dec |-> "ValueError", plain |-> <<>>]

Archives == {ArchGood, ArchBadParse, ArchBadDecrypt}

\* root_path.iterdir(): the child directories in the order of iteration, each
\* with the result of scan_wxapkg_files on it
Trees == SeqsUpTo(SeqsUpTo(Archives, MaxArchives), MaxSubdirs)

CInit ==
    /\ DIdle
    /\ PIdle
    /\ UIdle
    /\ SIdle
    /\ KIdle
    /\ FIdle
    /\ root \in RootPaths
    /\ rootKind \in {"missing", "file", "dir"}
    /\ tree \in IF rootKind = "missing" THEN {<<>>}
                ELSE IF rootKind = "file" THEN {<<<<a>>>> : a \in Archives}
                ELSE Trees
    /\ cpc = "start"
    /\ cwxid = <<>>
    /\ csub = 0
    /\ cfile = 0
    /\ attempted = <<>>
    /\ total_files = 0
    /\ cexit = -1

----------------------------------------------------------------------------
(* Actions of the unpack command *)

\* if files: sub_dirs.append(entry.name)
SubDirs(t) == SelectSeq(t, LAMBDA d : d # <<>>)

\* cli.unpack up to the call of _do_unpack
UnpackCommand ==
    /\ cpc = "start"
    /\ IF rootKind = "missing"
       THEN cpc' = "exit" /\ cexit' = 1 /\ UNCHANGED <<cwxid, csub, cfile>>
       ELSE LET w == ParseWxidFromPath(root)
            IN IF w = <<>>
               THEN cpc' = "exit" /\ cexit' = 1 /\ UNCHANGED <<cwxid, csub, cfile>>
               ELSE cpc' = "run" /\ cwxid' = w /\ csub' = 1 /\ cfile' = 1
                    /\ UNCHANGED cexit
    /\ UNCHANGED <<root, rootKind, tree, attempted, total_files, dvars, pvars, uvars,
                   svars, kvars, fvars>>

\* _do_unpack on a single file: one call of decrypt_and_unpack
DoUnpackFile ==
    /\ cpc = "run"
    /\ rootKind = "file"
    /\ LET r == DecryptAndUnpack(tree[1][1])
       IN /\ attempted' = Append(attempted, [sub |-> 1, file |-> 1, wxid |-> cwxid])
          /\ IF r.err # "none"
             THEN cpc' = "crashed" /\ cexit' = 1 /\ UNCHANGED total_files
             ELSE cpc' = "done" /\ cexit' = 0 /\ total_files' = r.value
    /\ UNCHANGED <<root, rootKind, tree, cwxid, csub, cfile, dvars, pvars, uvars,
                   svars, kvars, fvars>>

\* _do_unpack on a directory: one turn of "for wxapkg_file in files"
DoUnpackArchive ==
    /\ cpc = "run"
    /\ rootKind = "dir"
    /\ csub <= Len(SubDirs(tree))
    /\ LET sd == SubDirs(tree)
           r == DecryptAndUnpack(sd[csub][cfile])
       IN /\ attempted' = Append(attempted, [sub |-> csub, file |-> cfile, wxid |-> cwxid])
          /\ IF r.err # "none"
             THEN cpc' = "crashed" /\ cexit' = 1 /\ UNCHANGED <<total_files, csub, cfile>>
             ELSE /\ total_files' = total_files + r.value
                  /\ IF cfile < Len(sd[csub])
                     THEN cfile' = cfile + 1 /\ UNCHANGED csub
                     ELSE csub' = csub + 1 /\ cfile' = 1
                  /\ UNCHANGED <<cpc, cexit>>
    /\ UNCHANGED <<root, rootKind, tree, cwxid, dvars, pvars, uvars, svars, kvars, fvars>>

\* _do_unpack on a directory: the loops are over, the total is printed
DoUnpackEnd ==
    /\ cpc = "run"
    /\ rootKind = "dir"
    /\ csub > Len(SubDirs(tree))
    /\ cpc' = "done"
    /\ cexit' = 0
    /\ UNCHANGED <<root, rootKind, tree, cwxid, csub, cfile, attempted, total_files,
                   dvars, pvars, uvars, svars, kvars, fvars>>

CNext == UnpackCommand \/ DoUnpackFile \/ DoUnpackArchive \/ DoUnpackEnd

SpecCli == CInit /\ [][CNext]_vars

----------------------------------------------------------------------------
(* Claims about the unpack command, checked under SpecCli *)

\* the number of archives _do_unpack found below root
ArchiveCount == SumSeq([k \in 1..Len(SubDirs(tree)) |-> Len(SubDirs(tree)[k])])

\* the run over a directory is over
DirRunOver == rootKind = "dir" /\ cpc \in {"done", "crashed"}

\* C11 (as claimed): in directory mode a failing archive is abandoned and
\* every remaining archive of the same and of later child directories is
\* still processed, so a run over a directory never ends before
\* decrypt_and_unpack was called on every archive found.
C11_RemainingArchivesProcessed == DirRunOver => Len(attempted) = ArchiveCount

\* the first position at which wx[0-9a-f]{16} matches root
FirstMatch == CHOOSE i \in 1..Len(root) : MatchAt(root, i) /\ \A j \in 1..(i - 1) : ~MatchAt(root, j)

HasMatch == \E i \in 1..Len(root) : MatchAt(root, i)

\* C12: the identifier of the unpack command is the first substring of the
\* path matching wx[0-9a-f]{16}, and it is the one every archive is decrypted
\* with; when the path holds no such substring the command ends with exit
\* code 1 and decrypt_and_unpack was called on no archive.
C12_IdentifierResolution ==
    cpc \notin {"idle", "start"} =>
        /\ ~HasMatch => (cpc = "exit" /\ cexit = 1 /\ attempted = <<>> /\ cwxid = <<>>)
        /\ (HasMatch /\ rootKind # "missing") =>
              /\ cwxid = SubSeq(root, FirstMatch, FirstMatch + 17)
              /\ cpc # "exit"
              /\ \A k \in 1..Len(attempted) : attempted[k].wxid = cwxid

\* C12 witness: a path with two identifiers resolved to the first one and an
\* archive was decrypted with it
C12_Witness ==
    /\ root = PathTwo /\ cwxid = IdA /\ Len(attempted) >= 1 /\ attempted[1].wxid = IdA

\* C12 witness of the failure: a path with 15 digits after wx ended the run
C12_WitnessNoMatch == root = PathShort /\ rootKind = "dir" /\ cpc = "exit" /\ cexit = 1

----------------------------------------------------------------------------
(* Strings of the restorers (src/restorer): sequences of code points *)

\* the ASCII characters str.strip() removes and \s matches
Whitespace == {9, 10, 11, 12, 13, 32}

RECURSIVE LStripWs(_)
LStripWs(s) == IF s # <<>> /\ Head(s) \in Whitespace THEN LStripWs(Tail(s)) ELSE s

RECURSIVE RStripWs(_)
RStripWs(s) ==
    IF s # <<>> /\ s[Len(s)] \in Whitespace THEN RStripWs(SubSeq(s, 1, Len(s) - 1)) ELSE s

\* str.strip()
Strip(s) == RStripWs(LStripWs(s))

RECURSIVE Span(_, _, _)
\* the first position from i on whose character is not in S, Len(s) + 1 if none
Span(s, i, S) == IF i <= Len(s) /\ s[i] \in S THEN Span(s, i + 1, S) ELSE i

\* s.startswith(p)
StartsWith(s, p) == Len(s) >= Len(p) /\ SubSeq(s, 1, Len(p)) = p

\* s.endswith(p)
EndsWith(s, p) == Len(s) >= Len(p) /\ SubSeq(s, Len(s) - Len(p) + 1, Len(s)) = p

RECURSIVE Replace(_, _, _)
\* str.replace(old, new) for a non-empty old: the occurrences from the left,
\* not overlapping
Replace(s, old, new) ==
    IF Len(s) < Len(old) THEN s
    ELSE IF StartsWith(s, old) THEN new \o Replace(SubSeq(s, Len(old) + 1, Len(s)), old, new)
    ELSE <<Head(s)>> \o Replace(Tail(s), old, new)

\* the characters '"' and "'"
Quotes == {34, 39}

Digits == 48..57

----------------------------------------------------------------------------
(* WxssRestorer._split_array_elements and _parse_style_array *)

\* elements.append(elem) if elem, for elem = ''.join(current).strip()
Flush(elements, current) ==
    IF Strip(current) # <<>> THEN Append(elements, Strip(current)) ELSE elements

\* the state of the loop before the first character: the characters of the
\* current token, the bracket depth, the opening quote (0 outside a string),
\* whether the character is the one after a backslash and was appended with
\* it, and the tokens so far
ScanStart == [current |-> <<>>, depth |-> 0, q |-> 0, esc |-> FALSE, out |-> <<>>]

\* one turn of the while loop of _split_array_elements on the character c;
\* last: c is the last character.  A backslash inside a string is appended
\* together with the character after it (i += 2).
SplitStep(st, c, last) ==
    IF st.esc THEN [st EXCEPT !.current = Append(@, c), !.esc = FALSE]
    ELSE IF st.q # 0
         THEN IF c = 92 /\ ~last
              THEN [st EXCEPT !.current = Append(@, c), !.esc = TRUE]
              ELSE [st EXCEPT !.current = Append(@, c), !.q = IF c = st.q THEN 0 ELSE st.q]
    ELSE IF c \in Quotes THEN [st EXCEPT !.current = Append(@, c), !.q = c]
    ELSE IF c = 91 THEN [st EXCEPT !.current = Append(@, c), !.depth = @ + 1]
    ELSE IF c = 93 THEN [st EXCEPT !.current = Append(@, c), !.depth = @ - 1]
    ELSE IF c = 44 /\ st.depth = 0
         THEN [st EXCEPT !.current = <<>>, !.out = Flush(@, st.current)]
    ELSE [st EXCEPT !.current = Append(@, c)]

RECURSIVE SplitLoop(_, _, _, _)
\* the turns of the while loop on the characters lo..hi of s, from state st
\* (the range is halved, and the state after the first half is a value
\* before the second half starts, so that a long string needs no deep
\* evaluation)
SplitLoop(s, lo, hi, st) ==
    IF lo > hi THEN st
    ELSE IF lo = hi THEN SplitStep(st, s[lo], lo = Len(s))
    ELSE LET mid == (lo + hi) \div 2
         IN CHOOSE r \in {SplitLoop(s, mid + 1, hi, l) : l \in {SplitLoop(s, lo, mid, st)}} : TRUE

\* _split_array_elements(array_str)
SplitArrayElements(array_str) ==
    LET st == SplitLoop(array_str, 1, Len(array_str), ScanStart)
    IN Flush(st.out, st.current)

\* RPX_ARRAY_PATTERN.match(part) for \[\s*(\d+)\s*,\s*([\d.]+)\s*\]: the match
\* is anchored at the start of part only; t and v are group(1) and group(2)
RpxMatch(part) ==
    LET a1 == Span(part, 2, Whitespace)
        a2 == Span(part, a1, Digits)
        a3 == Span(part, a2, Whitespace)
        a4 == Span(part, a3 + 1, Whitespace)
        a5 == Span(part, a4, Digits \cup {46})
        a6 == Span(part, a5, Whitespace)
    IN IF /\ part # <<>> /\ part[1] = 91
          /\ a2 > a1
          /\ a3 <= Len(part) /\ part[a3] = 44
          /\ a5 > a4
          /\ a6 <= Len(part) /\ part[a6] = 93
       THEN [ok |-> TRUE, t |-> SubSeq(part, a1, a2 - 1), v |-> SubSeq(part, a4, a5 - 1)]
       ELSE [ok |-> FALSE, t |-> <<>>, v |-> <<>>]

\* int(group(1)) == 0 for a run of ASCII digits
IsZero(t) == \A k \in 1..Len(t) : t[k] = 48

\* float(v) accepts a run of digits and dots that has at most one dot and at
\* least one digit; otherwise it raises ValueError
FloatOk(v) ==
    /\ Cardinality({k \in 1..Len(v) : v[k] = 46}) <= 1
    /\ \E k \in 1..Len(v) : v[k] \in Digits

RECURSIVE DropZerosLeft(_)
DropZerosLeft(s) == IF s # <<>> /\ Head(s) = 48 THEN DropZerosLeft(Tail(s)) ELSE s

RECURSIVE DropZerosRight(_)
DropZerosRight(s) ==
    IF s # <<>> /\ s[Len(s)] = 48 THEN DropZerosRight(SubSeq(s, 1, Len(s) - 1)) ELSE s

\* str(float(v)) for a short decimal numeral v (no exponent form): the integer
\* part without leading zeros, a dot, the fraction without trailing zeros,
\* each "0" when empty
FloatStr(v) ==
    LET dot == Span(v, 1, Digits)
        ip == DropZerosLeft(SubSeq(v, 1, dot - 1))
        fp == DropZerosRight(SubSeq(v, dot + 1, Len(v)))
    IN (IF ip = <<>> THEN <<48>> ELSE ip) \o <<46>> \o (IF fp = <<>> THEN <<48>> ELSE fp)

\* "rpx"
RPX == <<114, 112, 120>>

\* the text of a quoted part: part[1:-1], then the escapes \n \t \' \" replaced
Unquote(part) ==
    LET text == IF Len(part) >= 2 THEN SubSeq(part, 2, Len(part) - 1) ELSE part
    IN Replace(Replace(Replace(Replace(text, <<92, 110>>, <<10>>), <<92, 116>>, <<9>>),
                       <<92, 39>>, <<39>>), <<92, 34>>, <<34>>)

RECURSIVE StyleParts(_)
\* the loop "for part in parts" of _parse_style_array: [err, value]
StyleParts(parts) ==
    IF parts = <<>> THEN [err |-> "none", value |-> <<>>]
    ELSE LET part == Strip(Head(parts))
             m == RpxMatch(part)
             rest == StyleParts(Tail(parts))
         IN IF part = <<>> THEN rest
            ELSE IF m.ok /\ ~FloatOk(m.v) THEN [err |-> "ValueError", value |-> <<>>]
            ELSE IF rest.err # "none" THEN rest
            ELSE IF m.ok
                 THEN [err |-> "none",
                       value |-> FloatStr(m.v) \o (IF IsZero(m.t) THEN RPX ELSE <<>>)
                                   \o rest.value]
            ELSE IF part[1] \in Quotes
                 THEN [err |-> "none", value |-> Unquote(part) \o rest.value]
            ELSE rest

\* _parse_style_array(array_str, device_width): the outcome
ParseStyleArray(array_str) == StyleParts(SplitArrayElements(array_str))

----------------------------------------------------------------------------
(* Inputs of _parse_style_array: "w:", [t, v], ";" *)

\* the largest number of characters of the numeral v of a tuple [t, v]
MaxNumeral == 3

\* the characters of the numerals: '0', '2', '5', '.'
NumeralChars == {48, 50, 53, 46}

\* the numerals [\d.]+ matches
Numerals == SeqsUpTo(NumeralChars, MaxNumeral) \ {<<>>}

\* the types: "0", "1", "2", "00"
TupleTypes == {<<48>>, <<49>>, <<50>>, <<48, 48>>}

\* '"w:"'
StylePrefix == <<34, 119, 58, 34>>

\* '";"'
StyleSuffix == <<34, 59, 34>>

\* the text "w:", [t, v], ";" with sp spaces after the comma of the tuple
StyleArrayText(a) ==
    StylePrefix \o <<44, 91>> \o a.t \o <<44>> \o [k \in 1..a.sp |-> 32] \o a.v
        \o <<93, 44>> \o StyleSuffix

StyleArrayInputs == [t : TupleTypes, v : Numerals, sp : {0, 1}]

PSInit ==
    /\ DIdle
    /\ PIdle
    /\ UIdle
    /\ CIdle
    /\ SIdle
    /\ KIdle
    /\ fn = "_parse_style_array"
    /\ arg \in StyleArrayInputs
    /\ res = <<>>
    /\ fpc = "call"

\* the call of _parse_style_array returns or raises
ParseStyleArrayCall ==
    /\ fpc = "call"
    /\ fn = "_parse_style_array"
    /\ res' = ParseStyleArray(StyleArrayText(arg))
    /\ fpc' = "done"
    /\ UNCHANGED <<fn, arg, dvars, pvars, uvars, cvars, svars, kvars>>

SpecStyleArray == PSInit /\ [][ParseStyleArrayCall]_vars

----------------------------------------------------------------------------
(* Claims about _parse_style_array, checked under SpecStyleArray *)

\* C13 (as claimed): a tuple [0, v] contributes the numeral v as written
\* followed by rpx and a tuple [1, v] the numeral v as written: the text
\* decoded from "w:", [t, v], ";" is w: v rpx ; for t = 0 and w: v ; for t = 1.
C13_UnitFidelity ==
    (fpc = "done" /\ arg.t \in {<<48>>, <<49>>}) =>
        /\ res.err = "none"
        /\ res.value = <<119, 58>> \o arg.v \o (IF arg.t = <<48>> THEN RPX ELSE <<>>) \o <<59>>

----------------------------------------------------------------------------
(* WxssRestorer._format_css and _add_style *)

RECURSIVE SubAround(_, _, _)
\* re.sub(r'\s*X\s*', rep, s) for a character X that is not whitespace: a
\* match is X with the whitespace before it and after it
SubAround(s, X, rep) ==
    IF s = <<>> THEN <<>>
    ELSE LET j == Span(s, 1, Whitespace)
         IN IF j <= Len(s) /\ s[j] = X
            THEN rep \o SubAround(SubSeq(s, Span(s, j + 1, Whitespace), Len(s)), X, rep)
            ELSE <<Head(s)>> \o SubAround(Tail(s), X, rep)

RECURSIVE SubAfter(_, _, _)
\* re.sub(r'X\s*', rep, s): a match is X with the whitespace after it
SubAfter(s, X, rep) ==
    IF s = <<>> THEN <<>>
    ELSE IF Head(s) = X
         THEN rep \o SubAfter(SubSeq(s, Span(s, 2, Whitespace), Len(s)), X, rep)
         ELSE <<Head(s)>> \o SubAfter(Tail(s), X, rep)

RECURSIVE SubBlankLines(_)
\* re.sub(r'\n\s*\n', '\n', s): a match runs from a newline to the last
\* newline of the whitespace that follows it
SubBlankLines(s) ==
    IF s = <<>> THEN <<>>
    ELSE LET e == Span(s, 2, Whitespace)
             nl == {k \in 2..(e - 1) : s[k] = 10}
         IN IF Head(s) = 10 /\ nl # {}
            THEN LET last == CHOOSE k \in nl : \A m \in nl : m <= k
                 IN <<10>> \o SubBlankLines(SubSeq(s, last + 1, Len(s)))
            ELSE <<Head(s)>> \o SubBlankLines(Tail(s))

\* _format_css(css)
FormatCss(css) ==
    Strip(SubBlankLines(
        SubAfter(SubAround(SubAround(Strip(css), 123, <<32, 123, 10, 32, 32>>),
                           125, <<10, 125, 10>>),
                 59, <<59, 10, 32, 32>>)))

\* ".wxss"
WXSS == <<46, 119, 120, 115, 115>>

\* path.replace('\\', '/'), then '.wxss' appended unless path ends with it
NormPath(path) ==
    LET p == Replace(path, <<92>>, <<47>>)
    IN IF EndsWith(p, WXSS) THEN p ELSE p \o WXSS

\* AddStyleTo replacing the record of a path that is present
AddStyleTo_Overwrite(st, path, content, is_global) ==
    Bind(st, NormPath(path),
         [path |-> NormPath(path), content |-> FormatCss(content), is_global |-> is_global])

\* self.styles after _add_style(path, content, is_global) on self.styles = st
AddStyleTo(st, path, content, is_global) ==
    LET p == NormPath(path)
        c == FormatCss(content)
    IN IF p \in DOMAIN st
       THEN [st EXCEPT ![p].content = @ \o <<10>> \o c]
       ELSE Bind(st, p, [path |-> p, content |-> c, is_global |-> is_global])

----------------------------------------------------------------------------
(* Inputs of _add_style *)

\* the largest number of calls of _add_style on one restorer
MaxAdds == 2

\* "a.wxss", "a", "b\c", "b/c.wxss"
StylePaths ==
    {<<97, 46, 119, 120, 115, 115>>, <<97>>, <<98, 92, 99>>,
     <<98, 47, 99, 46, 119, 120, 115, 115>>}

\* ".a{b:1;c:2}", " p { q : 1 ; } \n\n r{}", "x\n \ny", "  "
StyleContents ==
    {<<46, 97, 123, 98, 58, 49, 59, 99, 58, 50, 125>>,
     <<32, 112, 32, 123, 32, 113, 32, 58, 32, 49, 32, 59, 32, 125, 32, 10, 10, 32, 114,
       123, 125>>,
     <<120, 10, 32, 10, 121>>,
     <<32, 32>>}

SInit ==
    /\ DIdle
    /\ PIdle
    /\ UIdle
    /\ CIdle
    /\ KIdle
    /\ FIdle
    /\ styles = <<>>
    /\ added = <<>>

\* one call of _add_style
AddStyle ==
    /\ Len(added) < MaxAdds
    /\ \E path \in StylePaths, content \in StyleContents, is_global \in BOOLEAN :
          /\ styles' = AddStyleTo(styles, path, content, is_global)
          /\ added' = Append(added, [path |-> path, content |-> content,
                                     is_global |-> is_global])
    /\ UNCHANGED <<dvars, pvars, uvars, cvars, kvars, fvars>>

SpecStyles == SInit /\ [][AddStyle]_vars

----------------------------------------------------------------------------
(* Claims about _add_style, checked under SpecStyles *)

RECURSIVE JoinLines(_)
\* '\n'.join(ss)
JoinLines(ss) ==
    IF Len(ss) = 1 THEN ss[1] ELSE JoinLines(SubSeq(ss, 1, Len(ss) - 1)) \o <<10>> \o ss[Len(ss)]

\* the calls of _add_style whose path names the key k, in the order made
AddedFor(k) == SelectSeq(added, LAMBDA a : NormPath(a.path) = k)

\* the formatted contents of the records added for k
FormattedFor(k) == [n \in 1..Len(AddedFor(k)) |-> FormatCss(AddedFor(k)[n].content)]

\* the keys, the paths and the contents of the style map
StyleMapOk ==
    /\ DOMAIN styles = {NormPath(added[n].path) : n \in 1..Len(added)}
    /\ \A k \in DOMAIN styles :
          /\ EndsWith(k, WXSS)
          /\ styles[k].path = k
          /\ styles[k].content = JoinLines(FormattedFor(k))

\* a call leaves the records of the other paths as they are
OthersKept ==
    \A k \in DOMAIN styles :
        k # NormPath(added'[Len(added')].path) => (k \in DOMAIN styles' /\ styles'[k] = styles[k])

\* C14: after any sequence of _add_style calls every key of the style map ends
\* with .wxss and equals its record's path, and the content stored for a path
\* is the formatted contents of all records added for that path, in insertion
\* order, joined by a single newline; adding a record for one path leaves the
\* records of every other path unchanged.
C14_MergePolicy == []StyleMapOk /\ [][OthersKept]_vars

\* C14 witness: two records were added for b/c.wxss under different spellings
\* and with different contents, and the map holds one record with both
C14_Witness ==
    /\ Len(added) = 2
    /\ added[1].path # added[2].path
    /\ added[1].content # added[2].content
    /\ FormatCss(added[1].content) # added[1].content
    /\ DOMAIN styles = {<<98, 47, 99, 46, 119, 120, 115, 115>>}
    /\ styles[<<98, 47, 99, 46, 119, 120, 115, 115>>].content =
          FormatCss(added[1].content) \o <<10>> \o FormatCss(added[2].content)

----------------------------------------------------------------------------
(* WxmlRestorer._split_array_safe, _parse_z_array and WxmlNode.to_wxml *)

\* one turn of the for loop of _split_array_safe on the character c; last: c
\* is the last character.  Inside a string a backslash is appended and the
\* loop goes on to the next character, which is then handled as any other
\* character of the string.
SafeStep(st, c, last) ==
    IF st.q # 0
    THEN IF c = 92 /\ ~last
         THEN [st EXCEPT !.current = Append(@, c)]
         ELSE [st EXCEPT !.current = Append(@, c), !.q = IF c = st.q THEN 0 ELSE st.q]
    ELSE IF c \in Quotes THEN [st EXCEPT !.current = Append(@, c), !.q = c]
    ELSE IF c = 91 THEN [st EXCEPT !.current = Append(@, c), !.depth = @ + 1]
    ELSE IF c = 93 THEN [st EXCEPT !.current = Append(@, c), !.depth = @ - 1]
    ELSE IF c = 44 /\ st.depth = 0
         THEN [st EXCEPT !.current = <<>>, !.out = Flush(@, st.current)]
    ELSE [st EXCEPT !.current = Append(@, c)]

RECURSIVE SafeLoop(_, _, _, _)
\* the turns of the for loop on the characters lo..hi of s, from state st
SafeLoop(s, lo, hi, st) ==
    IF lo > hi THEN st
    ELSE IF lo = hi THEN SafeStep(st, s[lo], lo = Len(s))
    ELSE LET mid == (lo + hi) \div 2
         IN CHOOSE r \in {SafeLoop(s, mid + 1, hi, l) : l \in {SafeLoop(s, lo, mid, st)}} : TRUE

\* the parts of inner
SafeParts(inner) ==
    LET st == SafeLoop(inner, 1, Len(inner), ScanStart)
    IN Flush(st.out, st.current)

\* _split_array_safe(array_str)
SplitArraySafe(array_str) ==
    IF ~StartsWith(array_str, <<91>>) \/ ~EndsWith(array_str, <<93>>) THEN <<>>
    ELSE SafeParts(Strip(SubSeq(array_str, 2, Len(array_str) - 1)))

RECURSIVE LStripQuotes(_)
LStripQuotes(s) == IF s # <<>> /\ Head(s) \in Quotes THEN LStripQuotes(Tail(s)) ELSE s

RECURSIVE RStripQuotes(_)
RStripQuotes(s) ==
    IF s # <<>> /\ s[Len(s)] \in Quotes THEN RStripQuotes(SubSeq(s, 1, Len(s) - 1)) ELSE s

\* StripQuotes keeping the quotes
StripQuotes_Keep(s) == Strip(s)

\* s.strip().strip('"\'')
StripQuotes(s) == RStripQuotes(LStripQuotes(Strip(s)))

\* result[key] = value on a dict kept as the sequence of its items in
\* insertion order
DictSet(d, key, value) ==
    IF \E n \in 1..Len(d) : d[n][1] = key
    THEN [n \in 1..Len(d) |-> IF d[n][1] = key THEN <<key, value>> ELSE d[n]]
    ELSE Append(d, <<key, value>>)

RECURSIVE ParseAttrsFrom(_, _, _)
\* the while loop of _parse_attrs from i (0-based)
ParseAttrsFrom(attrs, i, result) ==
    IF i < Len(attrs) - 1
    THEN ParseAttrsFrom(attrs, i + 2,
                        DictSet(result, StripQuotes(attrs[i + 1]), StripQuotes(attrs[i + 2])))
    ELSE result

\* _parse_attrs_str(attrs_str)
ParseAttrsStr(attrs_str) == ParseAttrsFrom(SplitArraySafe(attrs_str), 0, <<>>)

\* str.isdigit() on ASCII
IsDigit(s) == s # <<>> /\ \A k \in 1..Len(s) : s[k] \in Digits

\* the children of _parse_z_array: parts[2:] stripped of blanks and quotes,
\* the empty ones left out
Children(parts) ==
    LET kids == [k \in 1..(Len(parts) - 2) |-> StripQuotes(parts[k + 2])]
    IN SelectSeq(kids, LAMBDA t : t # <<>>)

\* the value None of _parse_z_array, written as the node with the empty tag,
\* which the function never returns
NoNode == [tag |-> <<>>, attrs |-> <<>>, children |-> <<>>]

\* _parse_z_array(array_str): a node, or NoNode
ParseZArray(array_str) ==
    LET parts == SplitArraySafe(Strip(array_str))
    IN IF parts = <<>> THEN NoNode
       ELSE LET tag == StripQuotes(parts[1])
            IN IF tag = <<>> \/ IsDigit(tag) THEN NoNode
               ELSE [tag |-> tag,
                     attrs |-> IF Len(parts) > 1 /\ StartsWith(parts[2], <<91>>)
                               THEN ParseAttrsStr(parts[2]) ELSE <<>>,
                     children |-> IF Len(parts) > 2 THEN Children(parts) ELSE <<>>]

\* no tag is self-closing
SelfClosing_None == {}

\* self_closing = ['image', 'input', 'import', 'include', 'wxs']
SelfClosing ==
    {<<105, 109, 97, 103, 101>>, <<105, 110, 112, 117, 116>>,
     <<105, 109, 112, 111, 114, 116>>, <<105, 110, 99, 108, 117, 100, 101>>,
     <<119, 120, 115>>}

\* len(text) < 60
ONE_LINE == 60

\* the attribute value True, which is not a string
PyTrue == <<-1>>

\* the attribute value None, which is not a string
PyNone == <<-2>>

RECURSIVE AttrsStr(_)
\* attrs_str: ' key' for an item whose value is True, nothing for one whose
\* value is None, ' key="value"' for every other item
AttrsStr(attrs) ==
    IF attrs = <<>> THEN <<>>
    ELSE (IF Head(attrs)[2] = PyTrue THEN <<32>> \o Head(attrs)[1]
          ELSE IF Head(attrs)[2] # PyNone
               THEN <<32>> \o Head(attrs)[1] \o <<61, 34>> \o Head(attrs)[2] \o <<34>>
               ELSE <<>>)
           \o AttrsStr(Tail(attrs))

RECURSIVE ChildLines(_)
\* the lines of the children that are not blank, indented by two spaces
ChildLines(children) ==
    IF children = <<>> THEN <<>>
    ELSE (IF Strip(Head(children)) # <<>>
          THEN <<32, 32>> \o Strip(Head(children)) \o <<10>> ELSE <<>>)
           \o ChildLines(Tail(children))

\* node.to_wxml() at indent 0 for a node whose children are strings
ToWxml(node) ==
    LET open == <<60>> \o node.tag \o AttrsStr(node.attrs)
        close == <<60, 47>> \o node.tag \o <<62, 10>>
        text == Strip(node.children[1])
    IN IF node.children = <<>> /\ node.tag \in SelfClosing THEN open \o <<32, 47, 62, 10>>
       ELSE IF node.children = <<>> THEN open \o <<62>> \o close
       ELSE IF Len(node.children) = 1 /\ 10 \notin {text[k] : k \in 1..Len(text)}
               /\ Len(text) < ONE_LINE
            THEN open \o <<62>> \o text \o close
       ELSE open \o <<62, 10>> \o ChildLines(node.children) \o close

\* _restore_from_compiled on a content with the single call z.push(array_str):
\* [node, some, wxml], some = FALSE when the result is None (no node was
\* decoded and the alternative restore finds no tag text in such a content)
RestorePush(array_str) ==
    LET node == ParseZArray(array_str)
    IN IF node = NoNode THEN [node |-> NoNode, some |-> FALSE, wxml |-> <<>>]
       ELSE [node |-> node, some |-> TRUE, wxml |-> Strip(ToWxml(node))]

----------------------------------------------------------------------------
(* Inputs of _parse_z_array: [tag, [attrs], children ...] *)

\* "view"
TagView == <<118, 105, 101, 119>>

\* "image"
TagImage == <<105, 109, 97, 103, 101>>

\* "12": not a tag
TagDigits == <<49, 50>>

\* "class"
AttrClass == <<99, 108, 97, 115, 115>>

\* "c"
ValueC == <<99>>

\* "id"
AttrId == <<105, 100>>

\* "x"
ValueX == <<120>>

\* "hello"
TextHello == <<104, 101, 108, 108, 111>>

\* "world"
TextWorld == <<119, 111, 114, 108, 100>>

\* a text of 61 characters
TextLong ==
    <<116, 104, 101, 32, 113, 117, 105, 99, 107, 32, 98, 114, 111, 119, 110, 32, 102,
      111, 120, 32, 106, 117, 109, 112, 115, 32, 111, 118, 101, 114, 32, 116, 104, 101,
      32, 108, 97, 122, 121, 32, 100, 111, 103, 32, 97, 110, 100, 32, 114, 117, 110,
      115, 32, 102, 97, 114, 32, 97, 119, 97, 121>>

RECURSIVE JoinWith(_, _)
\* sep.join(ss)
JoinWith(ss, sep) ==
    IF ss = <<>> THEN <<>>
    ELSE IF Len(ss) = 1 THEN ss[1]
    ELSE ss[1] \o sep \o JoinWith(Tail(ss), sep)

\* the strings of ss, each between two quotes q
QuoteAll(ss, q) == [k \in 1..Len(ss) |-> <<q>> \o ss[k] \o <<q>>]

\* the text of the array of a push: a.tag, then the attribute array if
\* a.arr, then the children a.kids; strings are quoted with a.q and a.sp
\* spaces follow every top-level comma
ZPushText(a) ==
    LET sep == <<44>> \o [k \in 1..a.sp |-> 32]
        attrs == IF ~a.arr THEN <<>>
                 ELSE << <<91>> \o JoinWith(QuoteAll(a.attrs, a.q), <<44>>) \o <<93>> >>
    IN <<91>> \o JoinWith(QuoteAll(<<a.tag>>, a.q) \o attrs \o QuoteAll(a.kids, a.q), sep)
         \o <<93>>

ZPushInputs ==
    {a \in [tag : {TagView, TagImage, TagDigits},
            arr : BOOLEAN,
            attrs : {<<>>, <<AttrClass, ValueC>>, <<AttrClass, ValueC, AttrId, ValueX>>,
                     <<AttrClass, ValueC, AttrClass>>},
            kids : {<<>>, <<TextHello>>, <<TextHello, TextWorld>>, <<TextLong>>},
            q : Quotes,
            sp : {0, 1}] : a.arr \/ a.attrs = <<>>}

ZInit ==
    /\ DIdle
    /\ PIdle
    /\ UIdle
    /\ CIdle
    /\ SIdle
    /\ KIdle
    /\ fn = "_parse_z_array"
    /\ arg \in ZPushInputs
    /\ res = <<>>
    /\ fpc = "call"

\* the push is decoded and the node serialised
RestorePushCall ==
    /\ fpc = "call"
    /\ fn = "_parse_z_array"
    /\ res' = RestorePush(ZPushText(arg))
    /\ fpc' = "done"
    /\ UNCHANGED <<fn, arg, dvars, pvars, uvars, cvars, svars, kvars>>

SpecTemplate == ZInit /\ [][RestorePushCall]_vars

----------------------------------------------------------------------------
(* Claims about the template decoding, checked under SpecTemplate *)

\* the push is ["view",["class","c"],"hello"], with either kind of quotes and
\* with or without a space after the commas
IsExample ==
    /\ arg.tag = TagView /\ arg.arr /\ arg.attrs = <<AttrClass, ValueC>>
    /\ arg.kids = <<TextHello>>

\* '<view class="c">hello</view>'
ExampleWxml ==
    <<60, 118, 105, 101, 119, 32, 99, 108, 97, 115, 115, 61, 34, 99, 34, 62, 104, 101,
      108, 108, 111, 60, 47, 118, 105, 101, 119, 62>>

\* C15: a push of ["view",["class","c"],"hello"] decodes to a node with tag
\* view, attributes {class: c} and the single text child hello, and
\* serialises to exactly <view class="c">hello</view> on one line (to_wxml
\* ends the line with a newline, which _restore_from_compiled strips).
C15_TemplateExample ==
    (fpc = "done" /\ IsExample) =>
        /\ res.node = [tag |-> TagView, attrs |-> << <<AttrClass, ValueC>> >>,
                       children |-> <<TextHello>>]
        /\ ToWxml(res.node) = ExampleWxml \o <<10>>
        /\ res.some /\ res.wxml = ExampleWxml

\* C15 witness: the documented push, written with double quotes and no
\* spaces, has been decoded and serialised
C15_Witness ==
    /\ fpc = "done" /\ IsExample /\ arg.q = 34 /\ arg.sp = 0
    /\ ZPushText(arg) =
          <<91, 34, 118, 105, 101, 119, 34, 44, 91, 34, 99, 108, 97, 115, 115, 34, 44,
            34, 99, 34, 93, 44, 34, 104, 101, 108, 108, 111, 34, 93>>
    /\ res.wxml = ExampleWxml

----------------------------------------------------------------------------
(* ConfigRestorer (src/restorer/config_restorer.py).  A JSON object is a
   function from its keys to its values; self.page_configs is a function
   from page paths (strings of code points) to PageConfig records. *)

\* '.json'
JSON_EXT == <<46, 106, 115, 111, 110>>

\* 'app.json'
APP_JSON == <<97, 112, 112>> \o JSON_EXT

\* 'app-config.json'
APP_CONFIG_JSON == <<97, 112, 112, 45, 99, 111, 110, 102, 105, 103>> \o JSON_EXT

\* 'project.config.json'
PROJECT_CONFIG_JSON ==
    <<112, 114, 111, 106, 101, 99, 116, 46, 99, 111, 110, 102, 105, 103>> \o JSON_EXT

\* 'sitemap.json'
SITEMAP_JSON == <<115, 105, 116, 101, 109, 97, 112>> \o JSON_EXT

\* config.get(key, default)
Get(config, key, default) == IF key \in DOMAIN config THEN config[key] ELSE default

\* PageConfig(...) with the fields the call leaves out at their defaults
PageConfig(given) ==
    [navigationBarTitleText |-> Get(given, "navigationBarTitleText", ""),
     navigationBarBackgroundColor |-> Get(given, "navigationBarBackgroundColor", ""),
     navigationBarTextStyle |-> Get(given, "navigationBarTextStyle", ""),
     backgroundColor |-> Get(given, "backgroundColor", ""),
     backgroundTextStyle |-> Get(given, "backgroundTextStyle", ""),
     enablePullDownRefresh |-> Get(given, "enablePullDownRefresh", FALSE),
     usingComponents |-> Get(given, "usingComponents", {})]

\* the PageConfig _parse_app_config builds from an entry of config['page']
PageFromPrimary(page_config) == PageConfig(page_config)

\* the PageConfig _extract_from_app_service builds
PageFromService(config) ==
    PageConfig([usingComponents |-> Get(config, "usingComponents", {})])

\* the PageConfig _scan_json_files builds
PageFromScan(config) ==
    PageConfig([navigationBarTitleText |-> Get(config, "navigationBarTitleText", ""),
                usingComponents |-> Get(config, "usingComponents", {})])

\* AppConfig(pages, window, tabBar, subpackages, plugins)
AppConfig(pages, window, tabBar, subpackages, plugins) ==
    [pages |-> pages, window |-> window, tabBar |-> tabBar, subpackages |-> subpackages,
     plugins |-> plugins]

\* the AppConfig _parse_app_config builds; tabBar is <<>> for None
AppFromPrimary(config) ==
    AppConfig(Get(config, "pages", <<>>), Get(config, "window", {}),
              IF "tabBar" \in DOMAIN config THEN <<config.tabBar>> ELSE <<>>,
              Get(config, "subPackages", Get(config, "subpackages", <<>>)),
              Get(config, "plugins", {}))

\* the AppConfig _extract_from_app_service builds
AppFromService(config) ==
    AppConfig(Get(config, "pages", <<>>), Get(config, "window", {}), <<>>, <<>>, {})

\* the state of a ConfigRestorer the steps of restore work on
KState == [app_config |-> app_config, page_configs |-> page_configs, korigin |-> korigin]

\* self.page_configs[page_path] = record, by the step of source
SetPage(st, page_path, record, source) ==
    [st EXCEPT !.page_configs = Bind(@, page_path, record),
               !.korigin = Bind(@, page_path, source)]

RECURSIVE PrimaryPages(_, _, _)
\* the loop of _parse_app_config over the items of config['page'] whose keys
\* are todo: every record is assigned, whether the path has one or not
PrimaryPages(st, page, todo) ==
    IF todo = {} THEN st
    ELSE LET k == CHOOSE x \in todo : TRUE
         IN PrimaryPages(SetPage(st, k, PageFromPrimary(page[k]), "primary"), page,
                         todo \ {k})

\* _parse_app_config(file): a file json.loads rejects leaves the restorer as
\* it was (the exception is printed)
ParseAppConfig(st, file) ==
    IF ~file.ok THEN st
    ELSE LET page == Get(file.config, "page", <<>>)
         IN PrimaryPages([st EXCEPT !.app_config = <<AppFromPrimary(file.config)>>], page,
                         DOMAIN page)

\* one match of APP_CODE_CONFIG_PATTERN, every guard dropped
Assign_Overwrite(st, m) ==
    IF ~m.ok THEN st
    ELSE IF m.path = APP_JSON
         THEN [st EXCEPT !.app_config = <<AppFromService(m.config)>>]
         ELSE SetPage(st, Replace(m.path, JSON_EXT, <<>>), PageFromService(m.config),
                      "service")

\* one match of APP_CODE_CONFIG_PATTERN: m.path is group(1), m.ok tells
\* whether json.loads accepts group(2), m.config is the object then
Assign(st, m) ==
    IF ~m.ok THEN st
    ELSE IF m.path = APP_JSON
         THEN IF st.app_config = <<>>
              THEN [st EXCEPT !.app_config = <<AppFromService(m.config)>>]
              ELSE st
         ELSE LET page_path == Replace(m.path, JSON_EXT, <<>>)
              IN IF page_path \notin DOMAIN st.page_configs
                 THEN SetPage(st, page_path, PageFromService(m.config), "service")
                 ELSE st

RECURSIVE ExtractFromAppService(_, _)
\* _extract_from_app_service: the matches in the order of the file
ExtractFromAppService(st, matches) ==
    IF matches = <<>> THEN st
    ELSE ExtractFromAppService(Assign(st, Head(matches)), Tail(matches))

\* the file names _scan_json_files passes over
SCAN_SKIPPED == {APP_CONFIG_JSON, PROJECT_CONFIG_JSON, SITEMAP_JSON}

\* the last component of a relative path
FileName(rel) == LET ps == SplitSlash(rel, <<>>) IN ps[Len(ps)]

\* one file of rglob("*.json"): f.rel is its relative path, f.ok tells
\* whether json.loads accepts the content, f.config is the object then
ScanFile(st, f) ==
    IF FileName(f.rel) \in SCAN_SKIPPED \/ ~f.ok THEN st
    ELSE IF "usingComponents" \in DOMAIN f.config
            \/ "navigationBarTitleText" \in DOMAIN f.config
         THEN LET page_path == Replace(Replace(f.rel, <<92>>, <<47>>), JSON_EXT, <<>>)
              IN IF page_path \notin DOMAIN st.page_configs
                 THEN SetPage(st, page_path, PageFromScan(f.config), "scan")
                 ELSE st
         ELSE st

RECURSIVE ScanJsonFiles(_, _)
\* _scan_json_files: the files in the order rglob yields them
ScanJsonFiles(st, found) ==
    IF found = <<>> THEN st
    ELSE ScanJsonFiles(ScanFile(st, Head(found)), Tail(found))

\* the string fields of a PageConfig
PAGE_STRINGS ==
    {"navigationBarTitleText", "navigationBarBackgroundColor", "navigationBarTextStyle",
     "backgroundColor", "backgroundTextStyle"}

\* every field, empty or not
PageToDict_All(c) == c

\* PageConfig.to_dict(): the fields whose value is not empty or False
PageToDict(c) ==
    LET keep == {k \in PAGE_STRINGS : c[k] # ""}
                \cup (IF c.enablePullDownRefresh THEN {"enablePullDownRefresh"} ELSE {})
                \cup (IF c.usingComponents # {} THEN {"usingComponents"} ELSE {})
    IN [k \in keep |-> c[k]]

\* AppConfig.to_dict(): the fields whose value is not empty or None; the
\* tabBar is written as the object it was read from
AppToDict(c) ==
    LET keep == (IF c.pages # <<>> THEN {"pages"} ELSE {})
                \cup (IF c.window # {} THEN {"window"} ELSE {})
                \cup (IF c.tabBar # <<>> THEN {"tabBar"} ELSE {})
                \cup (IF c.subpackages # <<>> THEN {"subpackages"} ELSE {})
                \cup (IF c.plugins # {} THEN {"plugins"} ELSE {})
    IN [k \in keep |-> IF k = "tabBar" THEN c.tabBar[1] ELSE c[k]]

\* the project.config.json template (its appid comes from base_dir, which is
\* not part of the state)
PROJECT_TEMPLATE == [compileType |-> "miniprogram"]

RECURSIVE BuildPages(_, _, _)
\* the loop of _build_result over the page paths todo
BuildPages(result, pages, todo) ==
    IF todo = {} THEN result
    ELSE LET k == CHOOSE x \in todo : TRUE
             config_dict == PageToDict(pages[k])
         IN BuildPages(IF DOMAIN config_dict # {}
                       THEN Bind(result, k \o JSON_EXT, config_dict)
                       ELSE result,
                       pages, todo \ {k})

\* _build_result(): file path -> the object json.dumps writes
BuildResult(st) ==
    LET r1 == IF st.app_config # <<>>
              THEN Bind(<<>>, APP_JSON, AppToDict(st.app_config[1]))
              ELSE <<>>
        r2 == BuildPages(r1, st.page_configs, DOMAIN st.page_configs)
    IN IF st.app_config # <<>> /\ st.app_config[1].pages # <<>>
       THEN Bind(r2, PROJECT_CONFIG_JSON, PROJECT_TEMPLATE)
       ELSE r2

----------------------------------------------------------------------------
(* Inputs of ConfigRestorer.restore: the three sources under base_dir *)

\* the most matches of APP_CODE_CONFIG_PATTERN in app-service.js
MaxAssignments == 2

\* page path 'a'
PageA == <<97>>

\* page path 'b'
PageB == <<98>>

KPages == {PageA, PageB}

\* entries of config['page'] in app-config.json
PrimaryEntries ==
    {[navigationBarTitleText |-> "primary", backgroundColor |-> "#fff",
      usingComponents |-> {"c1"}],
     [enablePullDownRefresh |-> TRUE]}

\* the page mappings of app-config.json
PrimaryPageMaps == UNION {[S -> PrimaryEntries] : S \in SUBSET KPages}

\* app-config.json: absent, rejected by json.loads, with the global settings
\* and a page mapping, or with a page mapping only
PrimaryFiles ==
    {[exists |-> FALSE, ok |-> FALSE, config |-> [page |-> <<>>]],
     [exists |-> TRUE, ok |-> FALSE, config |-> [page |-> <<>>]]}
    \cup {[exists |-> TRUE, ok |-> TRUE,
           config |-> [pages |-> <<PageA>>, window |-> {"w1"}, tabBar |-> [color |-> "#000"],
                       subPackages |-> <<"sub">>, plugins |-> {"plug"}, page |-> pg]] :
            pg \in PrimaryPageMaps}
    \cup {[exists |-> TRUE, ok |-> TRUE, config |-> [page |-> pg]] :
            pg \in {<<>>, [k \in {PageA} |-> [enablePullDownRefresh |-> TRUE]]}}

\* the objects assigned in app-service.js
ServiceConfigs ==
    {[pages |-> <<PageB>>, window |-> {"w2"}, usingComponents |-> {"c2"}],
     [usingComponents |-> {"c3"}, navigationBarTitleText |-> "service"]}

\* a match of APP_CODE_CONFIG_PATTERN
Assignments ==
    {[path |-> p \o JSON_EXT, ok |-> FALSE, config |-> [usingComponents |-> {}]] :
        p \in {<<97, 112, 112>>, PageA, PageB}}
    \cup {[path |-> p \o JSON_EXT, ok |-> TRUE, config |-> c] :
            p \in {<<97, 112, 112>>, PageA, PageB}, c \in ServiceConfigs}

\* app-service.js: absent, or its matches in order
ServiceFiles ==
    {[exists |-> FALSE, matches |-> <<>>]}
    \cup {[exists |-> TRUE, matches |-> ms] : ms \in SeqsUpTo(Assignments, MaxAssignments)}

\* a page configuration file
ScanPage == [navigationBarTitleText |-> "scan", usingComponents |-> {"c4"}]

\* what rglob("*.json") yields: a.json (absent, a page configuration, an
\* object without the two keys, rejected by json.loads), b.json (absent, a
\* page configuration, or one whose usingComponents is empty) and a
\* sitemap.json that looks like a page configuration
ScanTrees ==
    {fa \o fb \o <<[rel |-> SITEMAP_JSON, ok |-> TRUE, config |-> ScanPage]>> :
        fa \in {<<>>,
                <<[rel |-> PageA \o JSON_EXT, ok |-> TRUE, config |-> ScanPage]>>,
                <<[rel |-> PageA \o JSON_EXT, ok |-> TRUE,
                   config |-> [backgroundColor |-> "#eee"]]>>,
                <<[rel |-> PageA \o JSON_EXT, ok |-> FALSE, config |-> ScanPage]>>},
        fb \in {<<>>,
                <<[rel |-> PageB \o JSON_EXT, ok |-> TRUE,
                   config |-> [usingComponents |-> {"c5"}]]>>,
                <<[rel |-> PageB \o JSON_EXT, ok |-> TRUE,
                   config |-> [usingComponents |-> {}]]>>}}

KInit ==
    /\ DIdle
    /\ PIdle
    /\ UIdle
    /\ CIdle
    /\ SIdle
    /\ FIdle
    /\ ksrc \in [primary : PrimaryFiles, service : ServiceFiles, scan : ScanTrees]
    /\ kpc = "start"
    /\ app_config = <<>>
    /\ page_configs = <<>>
    /\ korigin = <<>>
    /\ kresult = <<>>

\* the restorer after a step left it in state st
KSet(st) ==
    /\ app_config' = st.app_config
    /\ page_configs' = st.page_configs
    /\ korigin' = st.korigin

\* step 1 of restore: _parse_app_config if app-config.json exists
RestorePrimary ==
    /\ kpc = "start"
    /\ KSet(IF ksrc.primary.exists THEN ParseAppConfig(KState, ksrc.primary) ELSE KState)
    /\ kpc' = "service"
    /\ UNCHANGED <<ksrc, kresult, dvars, pvars, uvars, cvars, svars, fvars>>

\* step 2 of restore: _extract_from_app_service if app-service.js exists
RestoreService ==
    /\ kpc = "service"
    /\ KSet(IF ksrc.service.exists
            THEN ExtractFromAppService(KState, ksrc.service.matches)
            ELSE KState)
    /\ kpc' = "scan"
    /\ UNCHANGED <<ksrc, kresult, dvars, pvars, uvars, cvars, svars, fvars>>

\* step 3 of restore: _scan_json_files
RestoreScan ==
    /\ kpc = "scan"
    /\ KSet(ScanJsonFiles(KState, ksrc.scan))
    /\ kpc' = "build"
    /\ UNCHANGED <<ksrc, kresult, dvars, pvars, uvars, cvars, svars, fvars>>

\* step 4 of restore: return self._build_result()
RestoreBuild ==
    /\ kpc = "build"
    /\ kresult' = BuildResult(KState)
    /\ kpc' = "done"
    /\ UNCHANGED <<ksrc, app_config, page_configs, korigin, dvars, pvars, uvars, cvars,
                   svars, fvars>>

KNext == RestorePrimary \/ RestoreService \/ RestoreScan \/ RestoreBuild

SpecConfig == KInit /\ [][KNext]_vars

----------------------------------------------------------------------------
(* Claims about the configuration sources, checked under SpecConfig *)

\* json.loads accepted app-config.json
PrimaryParsed == ksrc.primary.exists /\ ksrc.primary.ok

\* the page mapping of app-config.json
PrimaryPageMap == IF PrimaryParsed THEN Get(ksrc.primary.config, "page", <<>>) ELSE <<>>

\* the assignments found in app-service.js
ServiceMatches == IF ksrc.service.exists THEN ksrc.service.matches ELSE <<>>

\* steps 2 and 3 of restore are over
ServiceRan == kpc \in {"scan", "build", "done"}

ScanRan == kpc \in {"build", "done"}

\* the n-th assignment defines page k
DefinesInService(k, n) ==
    /\ ServiceMatches[n].ok
    /\ ServiceMatches[n].path # APP_JSON
    /\ ServiceMatches[n].path = k \o JSON_EXT

\* the n-th assignment defines the global configuration
DefinesApp(n) == ServiceMatches[n].ok /\ ServiceMatches[n].path = APP_JSON

\* the n-th scanned file defines page k
DefinesInScan(k, n) ==
    /\ ksrc.scan[n].ok
    /\ ksrc.scan[n].rel = k \o JSON_EXT
    /\ ksrc.scan[n].rel \notin SCAN_SKIPPED
    /\ DOMAIN ksrc.scan[n].config \cap {"usingComponents", "navigationBarTitleText"} # {}

InService(k) == \E n \in 1..Len(ServiceMatches) : DefinesInService(k, n)

InScan(k) == \E n \in 1..Len(ksrc.scan) : DefinesInScan(k, n)

\* the record of page k by the first source that defines it, among the
\* sources whose step is over
ExpectedPage(k) ==
    IF k \in DOMAIN PrimaryPageMap
    THEN [from |-> "primary", record |-> PageFromPrimary(PrimaryPageMap[k])]
    ELSE IF ServiceRan /\ InService(k)
    THEN LET n == CHOOSE i \in 1..Len(ServiceMatches) :
                     DefinesInService(k, i) /\ \A j \in 1..(i - 1) : ~DefinesInService(k, j)
         IN [from |-> "service", record |-> PageFromService(ServiceMatches[n].config)]
    ELSE LET n == CHOOSE i \in 1..Len(ksrc.scan) : DefinesInScan(k, i)
         IN [from |-> "scan", record |-> PageFromScan(ksrc.scan[n].config)]

\* the page paths a source whose step is over defines
DefinedPages ==
    {k \in KPages \cup DOMAIN page_configs \cup DOMAIN PrimaryPageMap :
        \/ k \in DOMAIN PrimaryPageMap
        \/ ServiceRan /\ InService(k)
        \/ ScanRan /\ InScan(k)}

\* the global record after step 2
ExpectedApp ==
    IF PrimaryParsed THEN <<AppFromPrimary(ksrc.primary.config)>>
    ELSE IF \E n \in 1..Len(ServiceMatches) : DefinesApp(n)
    THEN LET n == CHOOSE i \in 1..Len(ServiceMatches) :
                     DefinesApp(i) /\ \A j \in 1..(i - 1) : ~DefinesApp(j)
         IN <<AppFromService(ServiceMatches[n].config)>>
    ELSE <<>>

\* every record is the one of the first source that defines its page
PrecedenceOk ==
    kpc \in {"service", "scan", "build", "done"} =>
        /\ DOMAIN page_configs = DefinedPages
        /\ \A k \in DOMAIN page_configs :
              /\ page_configs[k] = ExpectedPage(k).record
              /\ korigin[k] = ExpectedPage(k).from
        /\ ServiceRan => app_config = ExpectedApp

\* a step keeps every record there is
RecordsKept ==
    /\ \A k \in DOMAIN page_configs :
          /\ k \in DOMAIN page_configs'
          /\ page_configs'[k] = page_configs[k]
          /\ korigin'[k] = korigin[k]
    /\ app_config # <<>> => app_config' = app_config

\* C16: a per-page configuration comes from the first source that defines
\* the page path, in the order app-config.json page mapping, app-service.js
\* assignments, scanned *.json files; a later source never overwrites or
\* modifies a record an earlier one created, and the app.json of
\* app-service.js becomes the global configuration only when
\* app-config.json produced none.
C16_SourcePrecedence == []PrecedenceOk /\ [][RecordsKept]_vars

\* C16 witness: page a is defined by all three sources and kept from
\* app-config.json, page b by the scan only, and the app.json assigned in
\* app-service.js was not adopted over the global record of app-config.json
C16_Witness ==
    /\ kpc = "done"
    /\ PrimaryParsed /\ DOMAIN PrimaryPageMap = {PageA}
    /\ InService(PageA) /\ InScan(PageA) /\ InScan(PageB)
    /\ \E n \in 1..Len(ServiceMatches) : DefinesApp(n)
    /\ korigin[PageA] = "primary" /\ korigin[PageB] = "scan"
    /\ page_configs[PageA].usingComponents = {"c1"}
    /\ app_config[1].window = {"w1"}
    /\ APP_JSON \in DOMAIN kresult

\* C16 witness of the fallbacks: app-config.json is rejected, the first of
\* two app.json assignments became the global record and the first of the
\* sources of page a is app-service.js
C16_WitnessService ==
    /\ kpc = "done"
    /\ ~PrimaryParsed
    /\ Len(ServiceMatches) = 2 /\ DefinesApp(1) /\ DefinesInService(PageA, 2)
    /\ InScan(PageA)
    /\ korigin[PageA] = "service"
    /\ app_config = <<AppFromService(ServiceMatches[1].config)>>

----------------------------------------------------------------------------
(* Claims about the XOR mask, checked under SpecDecrypt *)

\* the bytes decrypt_file(id, d) returns after the 1023 header bytes, <<>>
\* when it raises
TailOf(id, d) ==
    LET r == DecryptFile(id, d)
    IN IF r.err = "none" THEN SubSeq(r.value, KEPT + 1, Len(r.value)) ELSE <<>>

\* id and other have the same length and the same penultimate character
SamePenultimate(id, other) ==
    /\ Len(other) = Len(id)
    /\ Len(id) >= 2
    /\ other[Len(other) - 1] = id[Len(id) - 1]

\* identifiers that differ in other positions only have the same mask, the
\* same outcome and the same decoded tail
SameMaskElsewhere ==
    \A other \in Identifiers :
        SamePenultimate(wxid, other) =>
            /\ XorKey(other) = XorKey(wxid)
            /\ DecryptFile(other, data).err = DecryptFile(wxid, data).err
            /\ TailOf(other, data) = TailOf(wxid, data)

\* C17 (as claimed): for every identifier of length >= 2 the tail XOR mask
\* is an 8-bit value, that of the penultimate character, every byte after
\* the header of a buffer of at least 1030 bytes is decoded with it, and two
\* identifiers of the same length that differ only in positions other than
\* the penultimate one yield the same mask and decode every tail byte
\* identically.
C17_MaskDeterminism ==
    (dpc # "call" /\ Len(wxid) >= 2) =>
        /\ XorKey(wxid) \in 0..255
        /\ XorKey(wxid) = wxid[Len(wxid) - 1]
        /\ Len(data) >= SKIP + HEADER =>
              /\ dpc = "returned"
              /\ \A i \in 1..(Len(data) - SKIP - HEADER) :
                    dres[KEPT + i] = Xor(data[SKIP + HEADER + i], XorKey(wxid))
        /\ SameMaskElsewhere

\* the part of C17 the code keeps: the mask is the code point of the
\* penultimate character, whatever the other characters are
C17_MaskFromPenultimate ==
    (dpc # "call" /\ Len(wxid) >= 2) =>
        /\ XorKey(wxid) = wxid[Len(wxid) - 1]
        /\ SameMaskElsewhere

\* two identifiers that differ in the third character only decoded a tail
\* with the same mask
C17_SameMaskReached ==
    /\ dpc = "returned" /\ wxid = IdA /\ Len(data) > SKIP + HEADER
    /\ TailOf(IdC, data) = TailOf(IdA, data) /\ TailOf(IdB, data) = TailOf(IdA, data)
    /\ DecryptFile(IdC, data).value # DecryptFile(IdA, data).value

\* the identifier with the wide penultimate character made bytes() raise on
\* a tail of one byte
C17_WideRaises ==
    /\ dpc = "raised" /\ derr = "ValueError" /\ wxid = IdWide
    /\ Len(data) = SKIP + HEADER + 1

----------------------------------------------------------------------------
(* Claims about the workers of unpack, checked under Spec *)

\* the entries whose extension is e
WithExt(e) == {i \in Entries : Ext(flist[i].name) = e}

\* the extensions of the entries
ExtsOf == {Ext(flist[i].name) : i \in Entries}

RECURSIVE SumCounts(_, _)
\* the sum of the counts st holds for the extensions es
SumCounts(st, es) ==
    IF es = {} THEN 0
    ELSE LET e == CHOOSE x \in es : TRUE IN st[e] + SumCounts(st, es \ {e})

\* every extension's count is the number of its entries, and the counts sum
\* to the number of entries
CountsExact ==
    /\ DOMAIN ext_stats = ExtsOf
    /\ \A e \in ExtsOf : ext_stats[e] = Cardinality(WithExt(e))
    /\ SumCounts(ext_stats, DOMAIN ext_stats) = Len(flist)

\* unpack returned and no save_file raised
AllSaved == upc = "returned" /\ \A i \in Entries : wpc[i] = "done"

\* C18 (as claimed): after unpack over n entries, with any width of the
\* worker pool and any interleaving of the workers' read-then-write updates,
\* each extension's count equals the number of entries with that extension
\* and the counts sum to n: no update is lost.  (Stated for the runs in
\* which no save_file raised.)
C18_NoLostUpdate == AllSaved => CountsExact

\* with one worker the updates do not interleave and the counts are exact
C18_OneWorkerExact == (AllSaved /\ threads = 1) => CountsExact

\* two workers read the count of the same extension before either stored
\* it, and unpack returned with one update lost
C18_LostUpdateReached ==
    /\ AllSaved /\ threads = 2 /\ Len(flist) = 2
    /\ Ext(flist[1].name) = Ext(flist[2].name)
    /\ wcnt[1] = 0 /\ wcnt[2] = 0
    /\ ext_stats[Ext(flist[1].name)] = 1

\* worker i is in, or through, the write of its entry
Writes(i) == wpc[i] \in {"write", "done"}

\* C19 (as claimed): within one unpack run no two workers ever write the
\* same destination path (output_dir joined with the name stripped of
\* leading '/'), for every entry list the parser can return.
C19_WriteDisjointness ==
    \A i \in Entries : \A j \in Entries :
        (i # j /\ Writes(i) /\ Writes(j)) => Dest(flist[i].name) # Dest(flist[j].name)

\* two workers are at the same time in the write of one destination, for
\* entries whose names differ in the leading '/' only
C19_ConcurrentWritersReached ==
    /\ Len(flist) = 2 /\ flist[1].name # flist[2].name
    /\ wpc[1] = "write" /\ wpc[2] = "write"
    /\ Dest(flist[1].name) = Dest(flist[2].name)

----------------------------------------------------------------------------
(* The two tokenisers on the same texts: _split_array_elements is given the
   text between the brackets, _split_array_safe the bracketed text *)

\* the longest text between the brackets
MaxTokenText == 5

\* a , [ ] " \ and the space
TokenChars == {97, 44, 91, 93, 34, 92, 32}

TokenTexts == SeqsUpTo(TokenChars, MaxTokenText)

Tokenisers == {"_split_array_elements", "_split_array_safe"}

TInit ==
    /\ DIdle
    /\ PIdle
    /\ UIdle
    /\ CIdle
    /\ SIdle
    /\ KIdle
    /\ fn \in Tokenisers
    /\ arg \in TokenTexts
    /\ res = <<>>
    /\ fpc = "call"

\* the tokeniser fn returns the tokens of arg
TokenCall ==
    /\ fpc = "call"
    /\ fn \in Tokenisers
    /\ res' = IF fn = "_split_array_elements" THEN SplitArrayElements(arg)
              ELSE SplitArraySafe(<<91>> \o arg \o <<93>>)
    /\ fpc' = "done"
    /\ UNCHANGED <<fn, arg, dvars, pvars, uvars, cvars, svars, kvars>>

SpecTokens == TInit /\ [][TokenCall]_vars

----------------------------------------------------------------------------
(* Claims about the tokenisers, checked under SpecTokens *)

RECURSIVE LexAt(_, _)
\* where the first i characters of s end: q is the quote of the string they
\* end in (0 outside strings), esc tells that the next character is escaped,
\* depth is the bracket depth and ok that it never fell below 0
LexAt(s, i) ==
    IF i = 0 THEN [q |-> 0, esc |-> FALSE, depth |-> 0, ok |-> TRUE]
    ELSE LET p == LexAt(s, i - 1)
             c == s[i]
         IN IF p.esc THEN [p EXCEPT !.esc = FALSE]
            ELSE IF p.q # 0
                 THEN IF c = 92 THEN [p EXCEPT !.esc = TRUE]
                      ELSE IF c = p.q THEN [p EXCEPT !.q = 0]
                      ELSE p
            ELSE IF c \in Quotes THEN [p EXCEPT !.q = c]
            ELSE IF c = 91 THEN [p EXCEPT !.depth = @ + 1]
            ELSE IF c = 93 THEN [p EXCEPT !.depth = @ - 1, !.ok = p.ok /\ p.depth >= 1]
            ELSE p

\* the brackets and the quotes of s are balanced
Balanced(s) ==
    LET e == LexAt(s, Len(s)) IN e.q = 0 /\ ~e.esc /\ e.depth = 0 /\ e.ok

\* the commas of s at bracket depth 0 outside strings
Separators(s) ==
    {i \in 1..Len(s) : s[i] = 44 /\ LexAt(s, i - 1).q = 0 /\ LexAt(s, i - 1).depth = 0}

\* the k-th separator of s; 0 before the first, Len(s) + 1 after the last
SeparatorAt(s, k) ==
    IF k = 0 THEN 0
    ELSE IF k > Cardinality(Separators(s)) THEN Len(s) + 1
    ELSE CHOOSE i \in Separators(s) : Cardinality({j \in Separators(s) : j < i}) = k - 1

\* the trimmed texts between consecutive separators of s
Segments(s) ==
    [k \in 1..(Cardinality(Separators(s)) + 1) |->
        Strip(SubSeq(s, SeparatorAt(s, k - 1) + 1, SeparatorAt(s, k) - 1))]

\* C20 (as claimed): for every input with balanced brackets and balanced
\* quotes the tokeniser returns as many tokens as there are commas at
\* bracket depth 0 outside strings, plus 1, each token being the trimmed
\* text between consecutive separators; a comma inside nested [...] or
\* inside a quoted string never splits a token.
C20_TokenCountLaw ==
    (fpc = "done" /\ Balanced(arg)) =>
        /\ Len(res) = Cardinality(Separators(arg)) + 1
        /\ res = Segments(arg)

\* the tokens are the trimmed texts between consecutive separators that are
\* not empty
NonEmptySegments == res = SelectSeq(Segments(arg), LAMBDA t : t # <<>>)

\* the part of C20 the style tokeniser keeps: the empty texts are dropped
C20_StyleTokens ==
    (fpc = "done" /\ Balanced(arg) /\ fn = "_split_array_elements") => NonEmptySegments

\* the part of C20 the template tokeniser keeps: the same, on texts
\* without a backslash
C20_TemplateTokens ==
    (fpc = "done" /\ Balanced(arg) /\ fn = "_split_array_safe"
        /\ \A i \in 1..Len(arg) : arg[i] # 92) => NonEmptySegments

\* the template tokeniser split "\"," at the comma inside the string
C20_SplitInStringReached ==
    /\ fpc = "done" /\ fn = "_split_array_safe"
    /\ arg = <<34, 92, 34, 44, 34>>
    /\ Balanced(arg) /\ Separators(arg) = {}
    /\ res = << <<34, 92, 34>>, <<34>> >>

\* both tokenisers returned 2 tokens for a,,a, which has 2 separators
C20_EmptyDroppedReached ==
    /\ fpc = "done" /\ arg = <<97, 44, 44, 97>>
    /\ Cardinality(Separators(arg)) = 2
    /\ res = << <<97>>, <<97>> >>

\* a comma inside brackets and a comma inside a string did not split
C20_NestedKeptReached ==
    /\ fpc = "done" /\ arg \in {<<91, 97, 44, 97, 93>>, <<34, 97, 44, 97, 34>>}
    /\ res = <<arg>>

----------------------------------------------------------------------------
(* Claims about the escapes of the tokenisers, checked under SpecTokens *)

\* the backslashes of s that stand inside a string and are not escaped
\* themselves
Escapes(s) ==
    {i \in 1..Len(s) : s[i] = 92 /\ LexAt(s, i - 1).q # 0 /\ ~LexAt(s, i - 1).esc}

\* the escaped quotes of s
EscapedQuotes(s) == {i \in 2..Len(s) : (i - 1) \in Escapes(s) /\ s[i] \in Quotes}

\* the commas of s inside a string
StringCommas(s) == {i \in 1..Len(s) : s[i] = 44 /\ LexAt(s, i - 1).q # 0}

\* C21 (as claimed): inside a quoted string a backslash makes the next
\* character be copied verbatim, so an escaped quote never ends the string
\* and a comma after it but before the closing quote never splits the token:
\* a balanced text with an escape in a string is split at its commas at
\* depth 0 outside strings only, by the style tokeniser and by the template
\* tokeniser.
C21_EscapesHonoured ==
    (fpc = "done" /\ Balanced(arg) /\ Escapes(arg) # {}) => NonEmptySegments

\* the part of C21 the code keeps: the style tokeniser honours the escapes
C21_StyleEscapes ==
    (fpc = "done" /\ Balanced(arg) /\ Escapes(arg) # {} /\ fn = "_split_array_elements")
        => NonEmptySegments

\* the style tokeniser kept "\"," whole: the escaped quote did not end the
\* string and the comma after it did not split
C21_StyleKeptReached ==
    /\ fpc = "done" /\ fn = "_split_array_elements"
    /\ arg = <<34, 92, 34, 44, 34>>
    /\ EscapedQuotes(arg) = {3} /\ StringCommas(arg) = {4}
    /\ res = <<arg>>

\* the template tokeniser ended the string "\"," at the escaped quote and
\* split at the comma
C21_TemplateSplitReached ==
    /\ fpc = "done" /\ fn = "_split_array_safe"
    /\ arg = <<34, 92, 34, 44, 34>>
    /\ EscapedQuotes(arg) = {3} /\ StringCommas(arg) = {4}
    /\ Len(res) = 2

----------------------------------------------------------------------------
(* _parse_style_array over one middle element of every kind *)

\* the first numbers of the tuples tried: "0", "1", "2", "7", "10"
ElementTypes == {<<48>>, <<49>>, <<50>>, <<55>>, <<49, 48>>}

\* the second numbers of the tuples tried: "20", "2.5", ".5", "5"
ElementValues == {<<50, 48>>, <<50, 46, 53>>, <<46, 53>>, <<53>>}

\* the contents of the quoted elements tried: x, #f00, the empty string
ElementStrings == {<<120>>, <<35, 102, 48, 48>>, <<>>}

\* elements that are neither a tuple of two numbers nor a quoted string:
\* ["1","#f00"], abc, 12, [a,20], [0,a], [0], [0,20]x, [[0,20]], [0,20,3], -5
ElementOthers ==
    { <<91, 34, 49, 34, 44, 34, 35, 102, 48, 48, 34, 93>>,
      <<97, 98, 99>>,
      <<49, 50>>,
      <<91, 97, 44, 50, 48, 93>>,
      <<91, 48, 44, 97, 93>>,
      <<91, 48, 93>>,
      <<91, 48, 44, 50, 48, 93, 120>>,
      <<91, 91, 48, 44, 50, 48, 93, 93>>,
      <<91, 48, 44, 50, 48, 44, 51, 93>>,
      <<45, 53>> }

StyleElements ==
    [kind : {"tuple"}, t : ElementTypes, v : ElementValues, sp : {0, 1}]
        \cup [kind : {"string"}, t : {<<34>>, <<39>>}, v : ElementStrings, sp : {0}]
        \cup [kind : {"other"}, t : {<<>>}, v : ElementOthers, sp : {0}]

\* the element as written in the array
ElementText(a) ==
    CASE a.kind = "tuple" ->
            <<91>> \o a.t \o <<44>> \o [k \in 1..a.sp |-> 32] \o a.v \o <<93>>
      [] a.kind = "string" -> a.t \o a.v \o a.t
      [] OTHER -> a.v

\* the array "w:", element, ";"
StyleElementArray(a) == StylePrefix \o <<44>> \o ElementText(a) \o <<44>> \o StyleSuffix

PEInit ==
    /\ DIdle
    /\ PIdle
    /\ UIdle
    /\ CIdle
    /\ SIdle
    /\ KIdle
    /\ fn = "_parse_style_array"
    /\ arg \in StyleElements
    /\ res = <<>>
    /\ fpc = "call"

\* the call of _parse_style_array on the array around one element
ParseStyleElementCall ==
    /\ fpc = "call"
    /\ fn = "_parse_style_array"
    /\ res' = ParseStyleArray(StyleElementArray(arg))
    /\ fpc' = "done"
    /\ UNCHANGED <<fn, arg, dvars, pvars, uvars, cvars, svars, kvars>>

SpecStyleElements == PEInit /\ [][ParseStyleElementCall]_vars

----------------------------------------------------------------------------
(* Claims about the elements _parse_style_array decodes, checked under
   SpecStyleElements *)

\* the text decoded when the middle element contributes nothing: w:;
NothingBetween == <<119, 58, 59>>

\* the element is a tuple whose first number is 0 or 1
UnitTuple(a) == a.kind = "tuple" /\ a.t \in {<<48>>, <<49>>}

\* C22 (as claimed): text is emitted only for tuples [t, v] with t in {0, 1}
\* and for quoted strings, in source order: between the fragments w: and ;
\* a unit tuple puts some text, a quoted string puts its content, and every
\* other element (a tuple with another t, a bracketed element with quoted
\* members, a bare identifier or number) puts nothing.
C22_OnlyUnitTuplesAndStrings ==
    fpc = "done" =>
        /\ res.err = "none"
        /\ Len(res.value) >= 3
        /\ SubSeq(res.value, 1, 2) = <<119, 58>>
        /\ res.value[Len(res.value)] = 59
        /\ UnitTuple(arg) => res.value # NothingBetween
        /\ arg.kind = "string" => res.value = <<119, 58>> \o arg.v \o <<59>>
        /\ (arg.kind # "string" /\ ~UnitTuple(arg)) => res.value = NothingBetween

\* C22 (what the code keeps): quoted strings put their content and elements
\* that do not begin with a tuple of two numbers put nothing, in source order.
C22_StringsAndNonTuples ==
    fpc = "done" =>
        /\ res.err = "none"
        /\ arg.kind = "string" => res.value = <<119, 58>> \o arg.v \o <<59>>
        /\ (arg.kind = "other" /\ ~RpxMatch(arg.v).ok) => res.value = NothingBetween
        /\ arg.kind = "tuple" => res.value # NothingBetween

\* the tuple [2,20] has been decoded and has put 20.0 between w: and ;
C22_OtherTypeEmitsReached ==
    /\ fpc = "done"
    /\ arg.kind = "tuple"
    /\ arg.t = <<50>>
    /\ arg.v = <<50, 48>>
    /\ res.value = <<119, 58, 50, 48, 46, 48, 59>>

\* the element ["1","#f00"] has been decoded and has put nothing
C22_QuotedMembersReached ==
    /\ fpc = "done"
    /\ arg.kind = "other"
    /\ arg.v = <<91, 34, 49, 34, 44, 34, 35, 102, 48, 48, 34, 93>>
    /\ res.value = NothingBetween

----------------------------------------------------------------------------
(* WxmlRestorer._is_compiled_wxml *)

\* sub in s
Contains(s, sub) == \E i \in 1..(Len(s) - Len(sub) + 1) : SubSeq(s, i, i + Len(sub) - 1) = sub

\* var z=
MARK_VAR_Z == <<118, 97, 114, 32, 122, 61>>

\* z.push
MARK_Z_PUSH == <<122, 46, 112, 117, 115, 104>>

\* $gwx
MARK_GWX == <<36, 103, 119, 120>>

\* compiled when any of the three tests holds
IsCompiledWxml_AnyOf(content) ==
    \/ ~StartsWith(Strip(content), <<60>>)
    \/ Contains(content, MARK_VAR_Z) \/ Contains(content, MARK_Z_PUSH)
    \/ Contains(content, MARK_GWX)

\* the tests in the order the code makes them: content that starts with <
\* after stripping is not compiled whatever it contains, other content is
\* compiled when it contains a marker
IsCompiledWxml(content) ==
    IF StartsWith(Strip(content), <<60>>) THEN FALSE
    ELSE IF Contains(content, MARK_VAR_Z) \/ Contains(content, MARK_Z_PUSH) THEN TRUE
    ELSE IF Contains(content, MARK_GWX) THEN TRUE
    ELSE FALSE

\* leading whitespace tried: none, a space, a newline
ContentLeads == {<<>>, <<32>>, <<10>>}

\* how the content begins: <view>, var x;, hello, a<b
ContentHeads ==
    { <<60, 118, 105, 101, 119, 62>>, <<118, 97, 114, 32, 120, 59>>,
      <<104, 101, 108, 108, 111>>, <<97, 60, 98>> }

\* the three markers
Markers == {MARK_VAR_Z, MARK_Z_PUSH, MARK_GWX}

\* what follows: nothing, a marker, or a near miss (var z =, Z.push, $gw, z.pus)
ContentMids ==
    Markers \cup { <<>>, <<118, 97, 114, 32, 122, 32, 61>>, <<90, 46, 112, 117, 115, 104>>,
                   <<36, 103, 119>>, <<122, 46, 112, 117, 115>> }

\* how the content ends: nothing or </view>
ContentTails == {<<>>, <<60, 47, 118, 105, 101, 119, 62>>}

MarkerInputs == [lead : ContentLeads, head : ContentHeads, mid : ContentMids, tail : ContentTails]

ContentText(a) == a.lead \o a.head \o a.mid \o a.tail

MInit ==
    /\ DIdle
    /\ PIdle
    /\ UIdle
    /\ CIdle
    /\ SIdle
    /\ KIdle
    /\ fn = "_is_compiled_wxml"
    /\ arg \in MarkerInputs
    /\ res = <<>>
    /\ fpc = "call"

\* the call of _is_compiled_wxml returns
IsCompiledWxmlCall ==
    /\ fpc = "call"
    /\ fn = "_is_compiled_wxml"
    /\ res' = [err |-> "none", value |-> IsCompiledWxml(ContentText(arg))]
    /\ fpc' = "done"
    /\ UNCHANGED <<fn, arg, dvars, pvars, uvars, cvars, svars, kvars>>

SpecMarkers == MInit /\ [][IsCompiledWxmlCall]_vars

----------------------------------------------------------------------------
(* Claims about _is_compiled_wxml, checked under SpecMarkers *)

\* the content begins, after its whitespace, with <
BeginsWithTag(a) == a.head[1] = 60

\* the content holds one of the three markers
HoldsMarker(a) == a.mid \in Markers

\* C23 (as claimed): content is compiled if and only if it does not start
\* with < or it contains var z=, z.push or $gwx.
C23_AnyTestCompiles ==
    fpc = "done" => (res.value <=> (~BeginsWithTag(arg) \/ HoldsMarker(arg)))

\* C23 (amended): content is compiled if and only if it does not start with <
\* after stripping and it contains var z=, z.push or $gwx; content that starts
\* with < is never compiled, content without a marker is never compiled.
C23_MarkerAndNoTag ==
    fpc = "done" => (res.value <=> (~BeginsWithTag(arg) /\ HoldsMarker(arg)))

\* content that starts with < and contains z.push has been classified as
\* not compiled
C23_Witness ==
    /\ fpc = "done"
    /\ BeginsWithTag(arg)
    /\ arg.mid = MARK_Z_PUSH
    /\ ~res.value

\* content that starts with a letter and holds no marker has been classified
\* as not compiled
C23_PlainTextReached ==
    /\ fpc = "done"
    /\ ~BeginsWithTag(arg)
    /\ ~HoldsMarker(arg)
    /\ ~res.value

\* content that starts with a letter and holds $gwx has been classified as
\* compiled
C23_CompiledReached ==
    /\ fpc = "done"
    /\ ~BeginsWithTag(arg)
    /\ arg.mid = MARK_GWX
    /\ res.value

----------------------------------------------------------------------------
(* Claims about _parse_z_array, checked under SpecTemplate *)

\* the strings of an attribute array taken two by two, a last odd one left out
PairsOf(a) == [k \in 1..(Len(a) \div 2) |-> <<a[2 * k - 1], a[2 * k]>>]

\* C24 (as claimed): the first token is the tag; the second token is decoded
\* pairwise as attributes only when it is bracketed; every remaining token,
\* a quoted second token included, is a child in source order; a purely
\* numeric tag yields no node.
C24_RemainingTokensAreChildren ==
    fpc = "done" =>
        IF arg.tag = TagDigits THEN ~res.some
        ELSE /\ res.some
             /\ res.node.tag = arg.tag
             /\ res.node.attrs = PairsOf(arg.attrs)
             /\ res.node.children = arg.kids

\* C24 (what the code keeps): the same, except that a second token that is
\* not bracketed is dropped: the children are the tokens from the third on.
C24_ChildrenFromThirdToken ==
    fpc = "done" =>
        IF arg.tag = TagDigits THEN ~res.some
        ELSE /\ res.some
             /\ res.node.tag = arg.tag
             /\ res.node.attrs = PairsOf(arg.attrs)
             /\ res.node.children =
                    (IF arg.arr \/ arg.kids = <<>> THEN arg.kids ELSE Tail(arg.kids))

\* the push ["view","hello"] has been decoded to a node without children
C24_SecondStringDroppedReached ==
    /\ fpc = "done"
    /\ arg.tag = TagView /\ ~arg.arr /\ arg.kids = <<TextHello>>
    /\ res.some
    /\ res.node.children = <<>>

\* a push with a bracketed second token and two children has been decoded
C24_BracketedSecondReached ==
    /\ fpc = "done"
    /\ arg.tag = TagView /\ arg.arr /\ arg.attrs = <<AttrClass, ValueC, AttrId, ValueX>>
    /\ arg.kids = <<TextHello, TextWorld>>
    /\ res.node.attrs = << <<AttrClass, ValueC>>, <<AttrId, ValueX>> >>
    /\ res.node.children = <<TextHello, TextWorld>>

----------------------------------------------------------------------------
(* WxmlNode.to_wxml over nodes given directly *)

\* "wxs"
TagWxs == <<119, 120, 115>>

\* "hidden"
AttrHidden == <<104, 105, 100, 100, 101, 110>>

\* the attribute dictionaries tried, in insertion order
NodeAttrs ==
    { <<>>,
      << <<AttrClass, ValueC>> >>,
      << <<AttrClass, ValueC>>, <<AttrId, ValueX>> >>,
      << <<AttrId, ValueX>>, <<AttrClass, ValueC>> >>,
      << <<AttrHidden, PyTrue>>, <<AttrClass, ValueC>> >>,
      << <<AttrClass, PyNone>>, <<AttrId, ValueX>> >> }

\* the children tried: none, hello, " hi ", a text with a newline, texts of
\* 59, 60 and 61 characters, two texts
NodeChildren ==
    { <<>>, <<TextHello>>, << <<32, 104, 105, 32>> >>, << <<97, 10, 98>> >>,
      <<SubSeq(TextLong, 1, 59)>>, <<SubSeq(TextLong, 1, 60)>>, <<TextLong>>,
      <<TextHello, TextWorld>> }

NodeInputs == [tag : {TagView, TagImage, TagWxs}, attrs : NodeAttrs, children : NodeChildren]

WInit ==
    /\ DIdle
    /\ PIdle
    /\ UIdle
    /\ CIdle
    /\ SIdle
    /\ KIdle
    /\ fn = "to_wxml"
    /\ arg \in NodeInputs
    /\ res = <<>>
    /\ fpc = "call"

\* the call of to_wxml returns
ToWxmlCall ==
    /\ fpc = "call"
    /\ fn = "to_wxml"
    /\ res' = [err |-> "none", value |-> ToWxml(arg)]
    /\ fpc' = "done"
    /\ UNCHANGED <<fn, arg, dvars, pvars, uvars, cvars, svars, kvars>>

SpecSerialise == WInit /\ [][ToWxmlCall]_vars

----------------------------------------------------------------------------
(* Claims about to_wxml, checked under SpecSerialise *)

\* one attribute as it is to appear: key for the value True, key="value" for
\* a string
Rendered(at) == IF at[2] = PyTrue THEN at[1] ELSE at[1] \o <<61, 34>> \o at[2] \o <<34>>

\* the attributes in the order encountered, each after a space
AttrText(attrs) ==
    LET shown == SelectSeq(attrs, LAMBDA at : at[2] # PyNone)
    IN IF shown = <<>> THEN <<>>
       ELSE <<32>> \o JoinWith([k \in 1..Len(shown) |-> Rendered(shown[k])], <<32>>)

\* a text of fewer than 60 characters without a newline
ShortText(t) == Len(t) < 60 /\ \A k \in 1..Len(t) : t[k] # 10

\* C25: a childless node whose tag is image, input, import, include or wxs
\* is serialised as <tag attrs />, any other childless node as
\* <tag attrs></tag>, and a node with a single text child of fewer than 60
\* characters without a newline as <tag attrs>text</tag> on one line; the
\* attributes appear in the order encountered as key="value", or as the bare
\* key for the value True.
C25_SerialisedShape ==
    (fpc = "done" /\ fn = "to_wxml") =>
        LET open == <<60>> \o arg.tag \o AttrText(arg.attrs)
            close == <<60, 47>> \o arg.tag \o <<62, 10>>
        IN /\ (arg.children = <<>> /\ arg.tag \in {TagImage, TagWxs}) =>
                  res.value = open \o <<32, 47, 62, 10>>
           /\ (arg.children = <<>> /\ arg.tag = TagView) =>
                  res.value = open \o <<62>> \o close
           /\ (Len(arg.children) = 1 /\ ShortText(Strip(arg.children[1]))) =>
                  res.value = open \o <<62>> \o Strip(arg.children[1]) \o close

\* C25 witness: the childless image with hidden = True and class = c has been
\* serialised as <image hidden class="c" />
C25_Witness ==
    /\ fpc = "done" /\ fn = "to_wxml"
    /\ arg.tag = TagImage /\ arg.children = <<>>
    /\ arg.attrs = << <<AttrHidden, PyTrue>>, <<AttrClass, ValueC>> >>
    /\ res.value =
          <<60, 105, 109, 97, 103, 101, 32, 104, 105, 100, 100, 101, 110, 32, 99, 108,
            97, 115, 115, 61, 34, 99, 34, 32, 47, 62, 10>>

\* a view with a single child of 59 characters has been serialised on one
\* line
C25_OneLineReached ==
    /\ fpc = "done" /\ fn = "to_wxml"
    /\ arg.tag = TagView /\ arg.attrs = <<>>
    /\ arg.children = <<SubSeq(TextLong, 1, 59)>>
    /\ Len(res.value) = 59 + 14
    /\ \A k \in 1..(Len(res.value) - 1) : res.value[k] # 10

\* a view with a single child of 60 characters has been serialised on three
\* lines
C25_ManyLinesReached ==
    /\ fpc = "done" /\ fn = "to_wxml"
    /\ arg.tag = TagView
    /\ arg.children = <<SubSeq(TextLong, 1, 60)>>
    /\ Cardinality({k \in 1..Len(res.value) : res.value[k] = 10}) = 3

----------------------------------------------------------------------------
(* The template key of a page-adjacent script in _scan_page_directories *)

\* '.js'
JS_EXT == <<46, 106, 115>>

\* '.wxml'
WXML_EXT == <<46, 119, 120, 109, 108>>

\* wxml_path: the relative path with every backslash made a slash and every
\* '.js' made '.wxml'
PageKey(rel) == Replace(Replace(rel, <<92>>, <<47>>), JS_EXT, WXML_EXT)

\* the directories tried: none, pages/, pages/index/, lib.js/, a.jsx/, js/
ScriptDirs ==
    { <<>>, <<112, 97, 103, 101, 115, 47>>,
      <<112, 97, 103, 101, 115, 47, 105, 110, 100, 101, 120, 47>>,
      <<108, 105, 98, 46, 106, 115, 47>>, <<97, 46, 106, 115, 120, 47>>, <<106, 115, 47>> }

\* the file names tried, without their '.js': a, index, x.json, x.js, a.jsx,
\* js, a.b, x.jsjs, app-service
ScriptStems ==
    { <<97>>, <<105, 110, 100, 101, 120>>, <<120, 46, 106, 115, 111, 110>>,
      <<120, 46, 106, 115>>, <<97, 46, 106, 115, 120>>, <<106, 115>>, <<97, 46, 98>>,
      <<120, 46, 106, 115, 106, 115>>,
      <<97, 112, 112, 45, 115, 101, 114, 118, 105, 99, 101>> }

\* the file names the scan passes over: app-service.js, app-wxss.js
SkippedScripts ==
    { <<97, 112, 112, 45, 115, 101, 114, 118, 105, 99, 101>> \o JS_EXT,
      <<97, 112, 112, 45, 119, 120, 115, 115>> \o JS_EXT }

\* the scripts rglob("*.js") can find
ScriptInputs == [dir : ScriptDirs, stem : ScriptStems]

ScriptPath(a) == a.dir \o a.stem \o JS_EXT

YInit ==
    /\ DIdle
    /\ PIdle
    /\ UIdle
    /\ CIdle
    /\ SIdle
    /\ KIdle
    /\ fn = "_scan_page_directories"
    /\ arg \in ScriptInputs
    /\ res = <<>>
    /\ fpc = "call"

\* the scan reaches one script: it is passed over or its key is computed
PageKeyCall ==
    /\ fpc = "call"
    /\ fn = "_scan_page_directories"
    /\ res' = IF arg.stem \o JS_EXT \in SkippedScripts
               THEN [err |-> "skipped", value |-> <<>>]
               ELSE [err |-> "none", value |-> PageKey(ScriptPath(arg))]
    /\ fpc' = "done"
    /\ UNCHANGED <<fn, arg, dvars, pvars, uvars, cvars, svars, kvars>>

SpecPageKey == YInit /\ [][PageKeyCall]_vars

----------------------------------------------------------------------------
(* Claims about the template key, checked under SpecPageKey *)

\* C26 (as claimed): the script p.js is keyed by p.wxml, only the trailing
\* '.js' being replaced: every other part of the path is unchanged.
C26_OnlyTrailingExtension ==
    (fpc = "done" /\ res.err = "none") => res.value = arg.dir \o arg.stem \o WXML_EXT

\* C26 (what the code keeps): the key ends with '.wxml', and it is p.wxml
\* whenever '.js' occurs in the path only at its end.
C26_KeyWhenNoOtherExtension ==
    (fpc = "done" /\ res.err = "none") =>
        /\ EndsWith(res.value, WXML_EXT)
        /\ ~Contains(arg.dir \o arg.stem, JS_EXT) =>
               res.value = arg.dir \o arg.stem \o WXML_EXT

\* the script x.json.js has been keyed by x.wxmlon.wxml
C26_JsonScriptReached ==
    /\ fpc = "done"
    /\ arg.dir = <<>> /\ arg.stem = <<120, 46, 106, 115, 111, 110>>
    /\ res.value = <<120>> \o WXML_EXT \o <<111, 110>> \o WXML_EXT

\* the script lib.js/a.js has been keyed by lib.wxml/a.wxml
C26_ScriptDirectoryReached ==
    /\ fpc = "done"
    /\ arg.dir = <<108, 105, 98, 46, 106, 115, 47>> /\ arg.stem = <<97>>
    /\ res.value = <<108, 105, 98>> \o WXML_EXT \o <<47, 97>> \o WXML_EXT

\* the script pages/index/index.js has been keyed by pages/index/index.wxml
C26_PlainScriptReached ==
    /\ fpc = "done"
    /\ arg.dir = <<112, 97, 103, 101, 115, 47, 105, 110, 100, 101, 120, 47>>
    /\ arg.stem = <<105, 110, 100, 101, 120>>
    /\ res.value = arg.dir \o arg.stem \o WXML_EXT

----------------------------------------------------------------------------
(* WxmlRestorer._restore_from_compiled and _try_alternative_restore *)

\* valid_tags
ValidTags ==
    { <<118, 105, 101, 119>>, <<116, 101, 120, 116>>, <<105, 109, 97, 103, 101>>,
      <<98, 117, 116, 116, 111, 110>>, <<105, 110, 112, 117, 116>>,
      <<115, 99, 114, 111, 108, 108, 45, 118, 105, 101, 119>>,
      <<115, 119, 105, 112, 101, 114>>,
      <<115, 119, 105, 112, 101, 114, 45, 105, 116, 101, 109>>, <<105, 99, 111, 110>>,
      <<110, 97, 118, 105, 103, 97, 116, 111, 114>>, <<102, 111, 114, 109>>,
      <<99, 104, 101, 99, 107, 98, 111, 120>>, <<114, 97, 100, 105, 111>>,
      <<112, 105, 99, 107, 101, 114>>, <<115, 108, 105, 100, 101, 114>>,
      <<115, 119, 105, 116, 99, 104>>, <<116, 101, 120, 116, 97, 114, 101, 97>>,
      <<118, 105, 100, 101, 111>>, <<97, 117, 100, 105, 111>>, <<109, 97, 112>>,
      <<99, 97, 110, 118, 97, 115>>, <<98, 108, 111, 99, 107>>,
      <<116, 101, 109, 112, 108, 97, 116, 101>>, <<105, 109, 112, 111, 114, 116>>,
      <<105, 110, 99, 108, 117, 100, 101>>, <<119, 120, 115>> }

\* the letters [a-z] matches when the case is ignored
IsLetter(c) == c \in 97..122 \/ c \in 65..90

\* tag_pattern matches the whole text t found between two quotes, for a t
\* that holds no quote: <, a letter, anything up to a >, anything, and a
\* closing tag of letters at the end
TagPatternMatches(t) ==
    /\ Len(t) >= 2 /\ t[1] = 60 /\ IsLetter(t[2])
    /\ \E g \in 3..Len(t) :
          /\ t[g] = 62
          /\ \E c \in (g + 1)..(Len(t) - 3) :
                /\ t[c] = 60 /\ t[c + 1] = 47 /\ t[Len(t)] = 62
                /\ \A k \in (c + 2)..(Len(t) - 1) : IsLetter(t[k])

\* _is_valid_wxml_tag(tag): '<' + t occurs somewhere in the lowered text
IsValidWxmlTag(tag) == \E t \in ValidTags : Contains(Lower(tag), <<60>> \o t)

\* _try_alternative_restore on a content whose quoted texts are lits
TryAlternativeRestore(lits) ==
    LET tags == SelectSeq(lits, LAMBDA t : TagPatternMatches(t) /\ IsValidWxmlTag(t))
    IN [some |-> tags # <<>>, wxml |-> JoinWith(tags, <<10>>), tags |-> tags,
        fallback |-> TRUE]

\* _restore_from_compiled on a content with the calls z.push(p) for p in
\* pushes and the quoted texts lits; some = FALSE stands for None
RestoreFromCompiled(pushes, lits) ==
    LET parsed == [k \in 1..Len(pushes) |-> ParseZArray(pushes[k])]
        nodes == SelectSeq(parsed, LAMBDA n : n # NoNode)
        result == JoinWith([k \in 1..Len(nodes) |-> ToWxml(nodes[k])], <<>>)
    IN IF nodes = <<>> THEN TryAlternativeRestore(lits)
       ELSE [some |-> Strip(result) # <<>>, wxml |-> Strip(result), tags |-> <<>>,
             fallback |-> FALSE]

\* the most quoted texts in a content
MaxLiterals == 2

\* the quoted texts tried, [lt, tag, attrs, body] standing for
\* <tag attrs>body</tag>, without the leading < when lt is FALSE:
\* <view>a</view>, <div>a</div>, <div><view>a</view></div>,
\* <viewer>a</viewer>, <VIEW>a</VIEW>, view>a</view>, <text class=t>b</text>
Literals ==
    { [lt |-> TRUE, tag |-> TagView, attrs |-> <<>>, body |-> <<97>>],
      [lt |-> TRUE, tag |-> <<100, 105, 118>>, attrs |-> <<>>, body |-> <<97>>],
      [lt |-> TRUE, tag |-> <<100, 105, 118>>, attrs |-> <<>>,
       body |-> <<60, 118, 105, 101, 119, 62, 97, 60, 47, 118, 105, 101, 119, 62>>],
      [lt |-> TRUE, tag |-> <<118, 105, 101, 119, 101, 114>>, attrs |-> <<>>,
       body |-> <<97>>],
      [lt |-> TRUE, tag |-> <<86, 73, 69, 87>>, attrs |-> <<>>, body |-> <<97>>],
      [lt |-> FALSE, tag |-> TagView, attrs |-> <<>>, body |-> <<97>>],
      [lt |-> TRUE, tag |-> <<116, 101, 120, 116>>,
       attrs |-> <<32, 99, 108, 97, 115, 115, 61, 116>>, body |-> <<98>>] }

\* the text of a literal between its quotes
LitText(l) ==
    (IF l.lt THEN <<60>> ELSE <<>>) \o l.tag \o l.attrs \o <<62>> \o l.body
        \o <<60, 47>> \o l.tag \o <<62>>

\* the pushes tried: none, ["view"] which decodes to a node, ["12"] which
\* does not
PushLists ==
    { <<>>, << <<91, 34, 118, 105, 101, 119, 34, 93>> >>, << <<91, 34, 49, 50, 34, 93>> >> }

CompiledInputs == [pushes : PushLists, lits : SeqsUpTo(Literals, MaxLiterals)]

\* the content: z.push(p); for every push, then var a='t'; for every literal
CompiledText(a) ==
    JoinWith([k \in 1..Len(a.pushes) |->
                  <<122, 46, 112, 117, 115, 104, 40>> \o a.pushes[k] \o <<41, 59>>], <<>>)
        \o JoinWith([k \in 1..Len(a.lits) |->
                  <<118, 97, 114, 32, 97, 61, 39>> \o LitText(a.lits[k]) \o <<39, 59>>], <<>>)

RInit ==
    /\ DIdle
    /\ PIdle
    /\ UIdle
    /\ CIdle
    /\ SIdle
    /\ KIdle
    /\ fn = "_restore_from_compiled"
    /\ arg \in CompiledInputs
    /\ res = <<>>
    /\ fpc = "call"

\* the call of _restore_from_compiled returns
RestoreFromCompiledCall ==
    /\ fpc = "call"
    /\ fn = "_restore_from_compiled"
    /\ res' = RestoreFromCompiled(arg.pushes, [k \in 1..Len(arg.lits) |-> LitText(arg.lits[k])])
    /\ fpc' = "done"
    /\ UNCHANGED <<fn, arg, dvars, pvars, uvars, cvars, svars, kvars>>

SpecFallback == RInit /\ [][RestoreFromCompiledCall]_vars

----------------------------------------------------------------------------
(* Claims about the fallback extraction, checked under SpecFallback *)

\* the literal begins with a tag of the known set
KnownOpening(l) == l.lt /\ Lower(l.tag) \in ValidTags

\* some push of the content decodes to a node
SomeNode(a) == a.pushes = << <<91, 34, 118, 105, 101, 119, 34, 93>> >>

\* C27 (as claimed): the fallback runs only when no push decoded to a node,
\* and it keeps a literal only if the literal begins with a known tag: a
\* literal with another opening tag is discarded even when a known tag
\* occurs later inside it or is a prefix of its tag name.
C27_KeepsOnlyKnownOpenings ==
    fpc = "done" =>
        /\ res.fallback => ~SomeNode(arg)
        /\ \A k \in 1..Len(res.tags) :
              \E j \in 1..Len(arg.lits) :
                  res.tags[k] = LitText(arg.lits[j]) /\ KnownOpening(arg.lits[j])

\* C27 (what the code keeps): the fallback runs exactly when no push decoded
\* to a node, and it then keeps, in order, every literal that begins with <
\* and holds < followed by a known tag name anywhere.
C27_KeepsKnownAnywhere ==
    fpc = "done" =>
        /\ res.fallback <=> ~SomeNode(arg)
        /\ res.fallback =>
              res.tags = SelectSeq([k \in 1..Len(arg.lits) |-> LitText(arg.lits[k])],
                                   LAMBDA t : t[1] = 60 /\ \E n \in ValidTags :
                                                  Contains(Lower(t), <<60>> \o n))

\* the literal <div><view>a</view></div> has been kept by the fallback
C27_KnownInsideKeptReached ==
    /\ fpc = "done" /\ res.fallback
    /\ Len(arg.lits) = 1 /\ arg.lits[1].tag = <<100, 105, 118>> /\ arg.lits[1].body # <<97>>
    /\ res.tags = <<LitText(arg.lits[1])>>

\* the literal <viewer>a</viewer> has been kept by the fallback
C27_PrefixKeptReached ==
    /\ fpc = "done" /\ res.fallback
    /\ Len(arg.lits) = 1 /\ arg.lits[1].tag = <<118, 105, 101, 119, 101, 114>>
    /\ res.tags = <<LitText(arg.lits[1])>>

\* the literal <div>a</div> has been discarded by the fallback, which ran
\* after the push ["12"] decoded to no node
C27_UnknownDiscardedReached ==
    /\ fpc = "done" /\ res.fallback
    /\ arg.pushes = << <<91, 34, 49, 50, 34, 93>> >>
    /\ Len(arg.lits) = 1 /\ arg.lits[1].tag = <<100, 105, 118>> /\ arg.lits[1].body = <<97>>
    /\ res.tags = <<>> /\ ~res.some

\* a push decoded to a node and the literals were not looked at
C27_NoFallbackReached ==
    /\ fpc = "done" /\ ~res.fallback
    /\ SomeNode(arg) /\ arg.lits # <<>>
    /\ res.tags = <<>> /\ res.some

----------------------------------------------------------------------------
(* Claims about the page files _build_result emits, checked under SpecConfig *)

\* the files of the result other than app.json and project.config.json
PageFiles == DOMAIN kresult \ {APP_JSON, PROJECT_CONFIG_JSON}

\* the fields of a page configuration that are not empty or false
FilledFields(c) ==
    {k \in DOMAIN c : c[k] # (IF k = "enablePullDownRefresh" THEN FALSE
                              ELSE IF k = "usingComponents" THEN {} ELSE "")}

\* C28 (as claimed): the page files emitted are {page_path}.json for every
\* recorded page configuration, those whose every field is empty or false
\* included.
C28_EveryRecordedPageEmitted ==
    kpc = "done" => PageFiles = {p \o JSON_EXT : p \in DOMAIN page_configs}

\* C28 (amended): the page files emitted are {page_path}.json for every
\* recorded page configuration that has a field which is not empty or false;
\* each document holds exactly those fields with their recorded values, and
\* a page whose every field is empty or false gets no file.
C28_FilledPagesEmitted ==
    kpc = "done" =>
        /\ PageFiles = {p \o JSON_EXT : p \in {q \in DOMAIN page_configs :
                                                  FilledFields(page_configs[q]) # {}}}
        /\ \A p \in DOMAIN page_configs :
              FilledFields(page_configs[p]) # {} =>
                  /\ DOMAIN kresult[p \o JSON_EXT] = FilledFields(page_configs[p])
                  /\ \A k \in FilledFields(page_configs[p]) :
                        kresult[p \o JSON_EXT][k] = page_configs[p][k]

\* C28 witness: restore has returned with page b recorded with every field
\* empty or false and page a recorded with a title; a.json is emitted and
\* b.json is not
C28_Witness ==
    /\ kpc = "done"
    /\ DOMAIN page_configs = {PageA, PageB}
    /\ FilledFields(page_configs[PageB]) = {}
    /\ "navigationBarTitleText" \in FilledFields(page_configs[PageA])
    /\ PageFiles = {PageA \o JSON_EXT}

----------------------------------------------------------------------------
(* Claims about where unpack writes, checked under Spec *)

\* '..'
DOT_DOT == <<46, 46>>

\* how far below output_dir the first k components of path lead
DepthAt(path, k) ==
    Cardinality({j \in 1..k : path[j] # DOT_DOT}) - Cardinality({j \in 1..k : path[j] = DOT_DOT})

\* the path, joined to output_dir, never leaves output_dir
Inside(path) == \A k \in 1..Len(path) : DepthAt(path, k) >= 0

\* the entry name has a '..' segment
HasDotDot(name) == \E k \in 1..Len(Dest(name)) : Dest(name)[k] = DOT_DOT

\* C29 (as claimed): every file and directory unpack creates lies inside
\* output_dir, whatever the entry names: names with '..' segments and names
\* with several leading '/' included.
C29_OutputContainment ==
    /\ \A p \in DOMAIN files : Inside(p)
    /\ \A d \in dirs : Inside(d)

\* C29 (what the code keeps): a file or directory outside output_dir comes
\* from an entry whose name has a '..' segment; names without one, whatever
\* their leading '/', stay inside.
C29_ContainedWithoutDotDot ==
    /\ \A p \in DOMAIN files :
          Inside(p) \/ \E i \in Entries : HasDotDot(flist[i].name) /\ Dest(flist[i].name) = p
    /\ \A d \in dirs :
          Inside(d) \/ \E i \in Entries :
                          HasDotDot(flist[i].name) /\ d \in MkdirParents(Parent(Dest(flist[i].name)))
    /\ \A i \in Entries : ~HasDotDot(flist[i].name) => Inside(Dest(flist[i].name))

\* the entry /../x/u has been saved: the directory ../x and the file ../x/u
\* exist beside output_dir
C29_EscapedReached ==
    /\ upc = "returned"
    /\ <<DOT_DOT, <<120>>, <<117>>>> \in DOMAIN files
    /\ <<DOT_DOT, <<120>>>> \in dirs

\* the entry //c has been saved as c inside output_dir
C29_SlashesStrippedReached ==
    /\ upc = "returned"
    /\ Len(flist) = 1 /\ flist[1].name = NameC2
    /\ DOMAIN files = {<< <<99>> >>}

----------------------------------------------------------------------------
(* WxmlRestorer.restore: the four sources of templates *)

\* the logical paths a.wxml and b.wxml
TemplateA == <<97, 46, 119, 120, 109, 108>>

TemplateB == <<98, 46, 119, 120, 109, 108>>

TemplatePaths == <<TemplateA, TemplateB>>

\* a content: the text pre, then the calls z.push(p) for p in pushes
Content(pre, pushes) == [pre |-> pre, pushes |-> pushes, lits |-> <<>>]

SourceText(c) == c.pre \o CompiledText(c)

\* what a *.wxml file holds: <view>raw</view>, nothing, z.push(["view"]);
\* or z.push(["12"]);
WxmlFile(opt) ==
    CASE opt = "raw" ->
            Content(<<60, 118, 105, 101, 119, 62, 114, 97, 119, 60, 47, 118, 105, 101, 119, 62>>,
                    <<>>)
      [] opt = "empty" -> Content(<<>>, <<>>)
      [] opt = "compiled" -> Content(<<>>, << <<91, 34, 118, 105, 101, 119, 34, 93>> >>)
      [] OTHER -> Content(<<>>, << <<91, 34, 49, 50, 34, 93>> >>)

\* the function block found for a path: z.push([tag]); with the tag of the
\* source (image in app-service.js, text in page-frame.html), or
\* z.push(["12"]);
Block(opt, tag) ==
    IF opt = "block" THEN Content(<<>>, << <<91, 34>> \o tag \o <<34, 93>> >>)
    ELSE Content(<<>>, << <<91, 34, 49, 50, 34, 93>> >>)

\* what a page script holds: z.push(["view","x","hello"]); or var x;
PageScript(opt) ==
    IF opt = "pushes"
    THEN Content(<<>>, << <<91, 34, 118, 105, 101, 119, 34, 44, 34, 120, 34, 44, 34, 104,
                            101, 108, 108, 111, 34, 93>> >>)
    ELSE Content(<<118, 97, 114, 32, 120, 59>>, <<>>)

\* the template decoded from a content, some = FALSE for None
Restored(c) == RestoreFromCompiled(c.pushes, <<>>)

\* the body of the loop of _scan_wxml_files for the file rel
ScanWxmlFile(templates, rel, c) ==
    IF IsCompiledWxml(SourceText(c))
    THEN IF Restored(c).some THEN Bind(templates, rel, Restored(c).wxml) ELSE templates
    ELSE Bind(templates, rel, SourceText(c))

\* the body of the loops of _extract_from_app_service and
\* _extract_from_page_frame for the match of a path whose block is c
ExtractMatch(templates, path, c) ==
    IF path \notin DOMAIN templates /\ Restored(c).some
    THEN Bind(templates, path, Restored(c).wxml)
    ELSE templates

\* the body of the loop of _scan_page_directories for the script rel
ScanPageScript(templates, rel, c) ==
    IF FileName(rel) \in SkippedScripts THEN templates
    ELSE IF ~(Contains(SourceText(c), MARK_Z_PUSH) \/ Contains(SourceText(c), MARK_GWX))
    THEN templates
    ELSE IF PageKey(rel) \notin DOMAIN templates /\ Restored(c).some
    THEN Bind(templates, PageKey(rel), Restored(c).wxml)
    ELSE templates

\* a loop over the two paths, in order, passing over those whose option is
\* "absent"
OverPaths(templates, opts, Body(_, _, _)) ==
    LET Step(t, k) == IF opts[k] = "absent" THEN t ELSE Body(t, TemplatePaths[k], opts[k])
    IN Step(Step(templates, 1), 2)

\* the trees tried: per path, what the *.wxml file is, what app-service.js
\* and page-frame.html hold for it, and what the page script is
WxmlOptions == {"absent", "raw", "empty", "compiled", "undecodable"}

BlockOptions == {"absent", "block", "undecodable"}

ScriptOptions == {"absent", "pushes", "plain"}

RestoreInputs ==
    [wxml : [1..2 -> WxmlOptions],
     service : [exists : {TRUE}, opts : [1..2 -> BlockOptions]]
                  \cup [exists : {FALSE}, opts : {[k \in 1..2 |-> "absent"]}],
     frame : [exists : {TRUE}, opts : [1..2 -> BlockOptions]]
                \cup [exists : {FALSE}, opts : {[k \in 1..2 |-> "absent"]}],
     scripts : [1..2 -> ScriptOptions]]

TRInit ==
    /\ DIdle
    /\ PIdle
    /\ UIdle
    /\ CIdle
    /\ SIdle
    /\ KIdle
    /\ fn = "restore"
    /\ arg \in RestoreInputs
    /\ res = <<>>
    /\ fpc = "scan_wxml"

\* step 1 of restore: self._scan_wxml_files()
RestoreScanWxml ==
    /\ fn = "restore" /\ fpc = "scan_wxml"
    /\ res' = OverPaths(res, arg.wxml,
                        LAMBDA t, p, o : ScanWxmlFile(t, p, WxmlFile(o)))
    /\ fpc' = "app_service"
    /\ UNCHANGED <<fn, arg, dvars, pvars, uvars, cvars, svars, kvars>>

\* step 2 of restore: app-service.js, when it exists
RestoreAppService ==
    /\ fn = "restore" /\ fpc = "app_service"
    /\ res' = IF arg.service.exists
              THEN OverPaths(res, arg.service.opts,
                             LAMBDA t, p, o : ExtractMatch(t, p, Block(o, TagImage)))
              ELSE res
    /\ fpc' = "page_frame"
    /\ UNCHANGED <<fn, arg, dvars, pvars, uvars, cvars, svars, kvars>>

\* step 3 of restore: page-frame.html, when it exists
RestorePageFrame ==
    /\ fn = "restore" /\ fpc = "page_frame"
    /\ res' = IF arg.frame.exists
              THEN OverPaths(res, arg.frame.opts,
                             LAMBDA t, p, o : ExtractMatch(t, p, Block(o, <<116, 101, 120, 116>>)))
              ELSE res
    /\ fpc' = "scan_pages"
    /\ UNCHANGED <<fn, arg, dvars, pvars, uvars, cvars, svars, kvars>>

\* step 4 of restore: self._scan_page_directories(), and the return
RestoreScanPages ==
    /\ fn = "restore" /\ fpc = "scan_pages"
    /\ res' = OverPaths(res, arg.scripts,
                        LAMBDA t, p, o :
                            ScanPageScript(t, SubSeq(p, 1, 1) \o JS_EXT, PageScript(o)))
    /\ fpc' = "done"
    /\ UNCHANGED <<fn, arg, dvars, pvars, uvars, cvars, svars, kvars>>

TRNext == RestoreScanWxml \/ RestoreAppService \/ RestorePageFrame \/ RestoreScanPages

SpecRestore == TRInit /\ [][TRNext]_vars

----------------------------------------------------------------------------
(* Claims about the sources of templates, checked under SpecRestore *)

\* the template the k-th path is to have when restore returns: that of the
\* first source, in the order *.wxml, app-service.js, page-frame.html, page
\* script, that has one for it; <<>> when no source has
ExpectedTemplate(k) ==
    CASE arg.wxml[k] = "raw" ->
            <<60, 118, 105, 101, 119, 62, 114, 97, 119, 60, 47, 118, 105, 101, 119, 62>>
      [] arg.wxml[k] = "compiled" -> <<60, 118, 105, 101, 119, 62, 60, 47, 118, 105, 101, 119, 62>>
      [] arg.wxml[k] \notin {"raw", "compiled"} /\ arg.service.opts[k] = "block" ->
            <<60, 105, 109, 97, 103, 101, 32, 47, 62>>
      [] arg.wxml[k] \notin {"raw", "compiled"} /\ arg.service.opts[k] # "block"
           /\ arg.frame.opts[k] = "block" ->
            <<60, 116, 101, 120, 116, 62, 60, 47, 116, 101, 120, 116, 62>>
      [] arg.wxml[k] \notin {"raw", "compiled"} /\ arg.service.opts[k] # "block"
           /\ arg.frame.opts[k] # "block" /\ arg.scripts[k] = "pushes" ->
            <<60, 118, 105, 101, 119, 62, 104, 101, 108, 108, 111, 60, 47, 118, 105, 101, 119, 62>>
      [] OTHER -> <<>>

\* a path that has a template keeps it, unaltered
TemplatesKept == \A p \in DOMAIN res : p \in DOMAIN res' /\ res'[p] = res[p]

\* when restore has returned, every path has the template of its first
\* source and the paths without a source are absent
FirstSourceWins ==
    (fn = "restore" /\ fpc = "done") =>
        \A k \in 1..2 :
            IF ExpectedTemplate(k) = <<>> THEN TemplatePaths[k] \notin DOMAIN res
            ELSE TemplatePaths[k] \in DOMAIN res /\ res[TemplatePaths[k]] = ExpectedTemplate(k)

\* every path of the result has a content that is not empty
NoEmptyTemplate == fn = "restore" => \A p \in DOMAIN res : res[p] # <<>>

\* C30 (as claimed): the sources are consulted in the order *.wxml,
\* app-service.js, page-frame.html, page scripts; a path that has a template
\* from an earlier source is not replaced or altered by a later one; and
\* every path of the result has a non-empty content.
C30_PrecedenceAndContent ==
    /\ []FirstSourceWins
    /\ [][fn = "restore" => TemplatesKept]_vars
    /\ []NoEmptyTemplate

\* C30 (what the code keeps): a path that has a template never loses or
\* changes it, and a path whose *.wxml file is not empty ends with the
\* non-empty template of its first source.
C30_EarlierSourceKept ==
    /\ [][fn = "restore" => TemplatesKept]_vars
    /\ []((fn = "restore" /\ fpc = "done") =>
            \A k \in 1..2 :
                arg.wxml[k] # "empty" =>
                    IF ExpectedTemplate(k) = <<>> THEN TemplatePaths[k] \notin DOMAIN res
                    ELSE res[TemplatePaths[k]] = ExpectedTemplate(k))

\* restore has returned a.wxml with an empty content, from an empty file
\* a.wxml, although app-service.js holds a template for it
C30_EmptyTemplateReached ==
    /\ fn = "restore" /\ fpc = "done"
    /\ arg.wxml[1] = "empty" /\ arg.service.exists /\ arg.service.opts[1] = "block"
    /\ TemplateA \in DOMAIN res /\ res[TemplateA] = <<>>

\* restore has returned the raw a.wxml although the three later sources
\* hold a template for it, and b.wxml from page-frame.html
C30_EarlierKeptReached ==
    /\ fn = "restore" /\ fpc = "done"
    /\ arg.wxml[1] = "raw" /\ arg.service.opts[1] = "block" /\ arg.frame.opts[1] = "block"
    /\ arg.scripts[1] = "pushes"
    /\ res[TemplateA] = ExpectedTemplate(1)
    /\ arg.wxml[2] = "undecodable" /\ arg.service.opts[2] = "undecodable"
    /\ arg.frame.opts[2] = "block"
    /\ res[TemplateB] = <<60, 116, 101, 120, 116, 62, 60, 47, 116, 101, 120, 116, 62>>

====
